---- MODULE Spec2Model ----
(***************************************************************************)
(* A model of simpleagent: the streaming client (claude.MessageStream) and *)
(* the conversation loop (Agent.RunInferenceTurn).                         *)
(*                                                                         *)
(* Go pointers are modelled as sequences of length at most one: <<>> is    *)
(* nil and <<v>> points to v.  Go strings are TLA+ strings.                *)
(***************************************************************************)
EXTENDS Integers, Sequences, FiniteSets, TLC

(***************************************************************************)
(* Bounds of the model.                                                    *)
(***************************************************************************)
\* lines of a response body when no Abort() runs beside the read loop
MaxLines == 4
\* lines of a response body when Abort() may run beside the read loop
MaxAbortLines == 2
\* responses the model gives in a session; later requests fail
MaxResponses == 1
\* lines of user input handled in a session
MaxInputs == 2
\* content blocks of a message the model returns
MaxBlocks == 2
\* responses the model gives in a session of single-block messages
MaxTurnResponses == 2
\* content blocks of a message in such a session
MaxTurnBlocks == 1
\* tool_use blocks of a message whose tools are run one by one
MaxBatch == 2
\* such messages in a session
MaxBatches == 2
\* content blocks of a message to the subagent
MaxSubBlocks == 2
\* requests a subagent gets answered
MaxSubCalls == 1
\* turns without tool calls that a session has behind it
PlainTurns == 3
\* content blocks of a message that names tools freely
MaxNamedBlocks == 2

(***************************************************************************)
(* Errors (Go error values).                                               *)
(***************************************************************************)
NoErr == [kind |-> "nil", status |-> 0, body |-> ""]

\* context.Canceled, as ctx.Err() and as the error of a read cut by cancel()
Canceled == [kind |-> "context canceled", status |-> 0, body |-> ""]

\* an error of httpClient.Do other than cancellation
TransportErr == [kind |-> "transport", status |-> 0, body |-> ""]

\* an error of the body read other than cancellation
ReadErr == [kind |-> "read", status |-> 0, body |-> ""]

APIError(status, body) == [kind |-> "api", status |-> status, body |-> body]

(***************************************************************************)
(* Messages and content blocks.                                            *)
(***************************************************************************)
ContentBlock(type, text, id, name, input, thinking) ==
    [Type |-> type, Text |-> text, ID |-> id, Name |-> name,
     Input |-> input, Thinking |-> thinking]

\* &Message{Content: []ContentBlock{}}
EmptyMessage ==
    [ID |-> "", Model |-> "", Role |-> "", Content |-> <<>>,
     StopReason |-> "", ReasoningContent |-> ""]

(***************************************************************************)
(* Lines of a response body.  A line is its text seen through the two      *)
(* tests the read loop makes: whether it starts with "data: ", whether its *)
(* payload unmarshals, and the sseEvent the payload fills in (a payload    *)
(* that fails with a type error still fills the fields before the error).  *)
(***************************************************************************)
NoDelta ==
    [Type |-> "", Text |-> "", PartialJSON |-> "", StopReason |-> "",
     Thinking |-> "", ReasoningContent |-> ""]

sseEvent(type, msg, delta, block) ==
    [Type |-> type, Message |-> msg, Delta |-> delta, ContentBlock |-> block]

DataLine(ev) == [prefix |-> TRUE, json |-> TRUE, ev |-> ev]

MessageStartLine ==
    DataLine(sseEvent("message_start",
        <<[ID |-> "msg_1", Model |-> "m", Role |-> "assistant"]>>, NoDelta, <<>>))

BlockStartLine(b) == DataLine(sseEvent("content_block_start", <<>>, NoDelta, <<b>>))

TextDeltaLine(s) ==
    DataLine(sseEvent("content_block_delta", <<>>,
        [NoDelta EXCEPT !.Type = "text_delta", !.Text = s], <<>>))

InputJsonDeltaLine(s) ==
    DataLine(sseEvent("content_block_delta", <<>>,
        [NoDelta EXCEPT !.Type = "input_json_delta", !.PartialJSON = s], <<>>))

ThinkingDeltaLine(s) ==
    DataLine(sseEvent("content_block_delta", <<>>,
        [NoDelta EXCEPT !.Type = "thinking_delta", !.Thinking = s], <<>>))

BlockStopLine == DataLine(sseEvent("content_block_stop", <<>>, NoDelta, <<>>))

MessageDeltaLine(stop, reasoning) ==
    DataLine(sseEvent("message_delta", <<>>,
        [NoDelta EXCEPT !.StopReason = stop, !.ReasoningContent = reasoning], <<>>))

MessageStopLine == DataLine(sseEvent("message_stop", <<>>, NoDelta, <<>>))

\* a line without the "data: " prefix whose text is a well-formed frame
CommentLine == [MessageStopLine EXCEPT !.prefix = FALSE]

\* a data line whose payload gives a type error after "type" was decoded
BadJSONLine == [TextDeltaLine("a") EXCEPT !.json = FALSE]

\* the lines a response body is made of
Lines ==
    { CommentLine, BadJSONLine, MessageStartLine,
      BlockStartLine(ContentBlock("text", "", "", "", "", "")),
      BlockStartLine(ContentBlock("text", "x", "", "", "", "")),
      BlockStartLine(ContentBlock("tool_use", "", "a", "Ls", "{}", "")),
      TextDeltaLine("a"), TextDeltaLine("b"),
      InputJsonDeltaLine("1"), ThinkingDeltaLine("t"),
      BlockStopLine, MessageDeltaLine("tool_use", "r"), MessageStopLine }

\* the status codes of a response
Statuses == {200, 201, 404, 500}

\* the raw body of a response with the given status
BodyOf(status) == IF status = 404 THEN "not found" ELSE "oops"

(***************************************************************************)
(* State.                                                                  *)
(***************************************************************************)
VARIABLES
    spc,            \* where the consumer of the stream is
    mode,           \* "": not started, "final": FinalMessage, "events": Events
    bodyCap,        \* number of lines the response body may carry
    ctxDone,        \* ms.ctx is cancelled
    aborted,        \* ms.controller.aborted
    apc,            \* where the caller of Abort() is
    message,        \* ms.message (pointer)
    currentBlock,   \* FinalMessage's currentBlock (pointer)
    toolInputJSON,  \* FinalMessage's toolInputJSON
    finalText,      \* ms.finalText
    events,         \* what the registered handlers have been called with, in order
    done,           \* the values sent on ms.done
    doneOnce,       \* ms.doneOnce has run
    line,           \* the line scanner.Text() returned
    nlines,         \* lines read from the body so far
    wire,           \* the lines the loop body was entered with, in order
    response,       \* ms.response: <<>> or <<status>>
    requests,       \* HTTP requests issued
    retMsg,         \* the *Message FinalMessage returned (pointer)
    retErr,         \* the error FinalMessage or Events returned
    ch,             \* the events sent on the channel Events returned
    chClosed,       \* that channel is closed
    abortedWhile    \* history: spc and the number of events when Abort() returned

streamVars ==
    <<spc, mode, bodyCap, ctxDone, aborted, apc, message, currentBlock,
      toolInputJSON, finalText, events, done, doneOnce, line, nlines, wire,
      response, requests, retMsg, retErr, ch, chClosed, abortedWhile>>

VARIABLES
    turn,                 \* where the main loop is: "idle", "infer", "save"
    messages,             \* a.messages, the conversation
    planMode,             \* a.planMode
    turnsSinceTodoWrite,  \* a.turnsSinceTodoWrite
    pendingTodos,         \* *a.todos holds a pending or in_progress item
    toolSet,              \* the tool set offered with the latest request
    turnErr,              \* what the latest RunInferenceTurn returned
    nresp,                \* responses the model has given
    respCap,              \* responses the model gives before its requests fail
    blockCap,             \* content blocks a message of the model may hold
    ninputs               \* lines of input handled

agentVars ==
    <<turn, messages, planMode, turnsSinceTodoWrite, pendingTodos, toolSet,
      turnErr, nresp, respCap, blockCap, ninputs>>

VARIABLES
    permissionsMode,      \* tools.permissionsMode
    fs,                   \* the filesystem: what each path holds
    todo,                 \* tool_use blocks executeTools has still to run
    toolResults,              \* executeTools' toolResults so far
    last,                 \* history: the latest tool call and what it did
    nbatches              \* messages whose tools have been run

toolVars == <<permissionsMode, fs, todo, toolResults, last, nbatches>>

VARIABLE
    sub                   \* RunSubagent: its position, locals and return values

VARIABLES
    rep,                  \* a call of replaceText: the file, the input, the result
    recv,                 \* events the consumer has received from the channel of Events
    body,                 \* what the response body is made of: "any" line, or "deltas"
    skill,                \* tools.allowedTools (pointer), and the latest Execute under it
    sess                  \* a.permissionsMode and the session file Save writes

extVars == <<rep, recv, body, skill, sess>>

vars == <<streamVars, agentVars, toolVars, sub, extVars>>

(***************************************************************************)
(* MessageStream: emit, signalDone and the frame handlers of FinalMessage. *)
(* The handlers work on the record of what the read loop owns:             *)
(*   [message, currentBlock, toolInputJSON, finalText, events].            *)
(***************************************************************************)
\* a slip in emit: the handlers of an event run before those of earlier events
emitOutOfOrder(evs, event, data) == <<[kind |-> event, data |-> data]>> \o evs

\* ms.emit(event, data), with one recording handler registered per event
emit(evs, event, data) == Append(evs, [kind |-> event, data |-> data])

\* ms.signalDone(err) on d = [once, sent]: doneOnce and the done channel
signalDone(d, err) ==
    IF d.once THEN d ELSE [once |-> TRUE, sent |-> Append(d.sent, err)]

\* case "message_start"
OnMessageStart(st, ev) ==
    IF Len(ev.Message) = 0 THEN st
    ELSE [st EXCEPT !.message.ID = ev.Message[1].ID,
                    !.message.Model = ev.Message[1].Model,
                    !.message.Role = ev.Message[1].Role]

\* a slip in case "content_block_start": a block still open is put in the
\* message before the new one replaces it
OnContentBlockStartFlushes(st, ev) ==
    [st EXCEPT !.message.Content = IF Len(st.currentBlock) = 0 THEN @
                                   ELSE Append(@, st.currentBlock[1]),
               !.currentBlock = ev.ContentBlock,
               !.toolInputJSON = "",
               !.events = IF Len(ev.ContentBlock) = 0 THEN @
                          ELSE Append(@, [kind |-> "contentBlockStart",
                                          data |-> ev.ContentBlock[1]])]

\* case "content_block_start"
OnContentBlockStart(st, ev) ==
    [st EXCEPT !.currentBlock = ev.ContentBlock,
               !.toolInputJSON = "",
               !.events = IF Len(ev.ContentBlock) = 0 THEN @
                          ELSE emit(@, "contentBlockStart", ev.ContentBlock[1])]

\* a slip in case "content_block_delta": the fragment is put in front
OnContentBlockDeltaPrepends(st, ev) ==
    IF Len(st.currentBlock) = 0 THEN st
    ELSE IF ev.Delta.Type = "text_delta" THEN
        [st EXCEPT !.currentBlock[1].Text = ev.Delta.Text \o @,
                   !.finalText = @ \o ev.Delta.Text,
                   !.events = Append(@, [kind |-> "text", data |-> ev.Delta.Text])]
    ELSE IF ev.Delta.Type = "input_json_delta" THEN
        [st EXCEPT !.toolInputJSON = ev.Delta.PartialJSON \o @,
                   !.events = Append(@, [kind |-> "inputJson",
                                         data |-> ev.Delta.PartialJSON])]
    ELSE IF ev.Delta.Type = "thinking_delta" THEN
        [st EXCEPT !.currentBlock[1].Thinking = ev.Delta.Thinking \o @,
                   !.events = Append(@, [kind |-> "thinking",
                                         data |-> ev.Delta.Thinking])]
    ELSE st

\* case "content_block_delta"
OnContentBlockDelta(st, ev) ==
    IF Len(st.currentBlock) = 0 THEN st
    ELSE IF ev.Delta.Type = "text_delta" THEN
        [st EXCEPT !.currentBlock[1].Text = @ \o ev.Delta.Text,
                   !.finalText = @ \o ev.Delta.Text,
                   !.events = emit(@, "text", ev.Delta.Text)]
    ELSE IF ev.Delta.Type = "input_json_delta" THEN
        [st EXCEPT !.toolInputJSON = @ \o ev.Delta.PartialJSON,
                   !.events = emit(@, "inputJson", ev.Delta.PartialJSON)]
    ELSE IF ev.Delta.Type = "thinking_delta" THEN
        [st EXCEPT !.currentBlock[1].Thinking = @ \o ev.Delta.Thinking,
                   !.events = emit(@, "thinking", ev.Delta.Thinking)]
    ELSE st

\* the block content_block_stop finalizes: a tool_use block takes the buffer
FinalizedBlock(block, buffer) ==
    IF block.Type = "tool_use" /\ buffer # ""
    THEN [block EXCEPT !.Input = buffer]
    ELSE block

\* a slip in case "content_block_stop": the open-block pointer is not cleared
OnContentBlockStopKeepsOpen(st, ev) ==
    IF Len(st.currentBlock) = 0 THEN st
    ELSE LET b == st.currentBlock[1] IN
        [st EXCEPT !.events = Append(Append(@, [kind |-> "contentBlockStop", data |-> b]),
                                     [kind |-> "contentBlock", data |-> b]),
                   !.message.Content = Append(@, b)]

\* case "content_block_stop"
OnContentBlockStop(st, ev) ==
    IF Len(st.currentBlock) = 0 THEN st
    ELSE LET b == FinalizedBlock(st.currentBlock[1], st.toolInputJSON) IN
        [st EXCEPT !.events = emit(emit(@, "contentBlockStop", b), "contentBlock", b),
                   !.message.Content = Append(@, b),
                   !.currentBlock = <<>>]

\* case "message_delta"
OnMessageDelta(st, ev) ==
    LET s1 == IF ev.Delta.StopReason # ""
              THEN [st EXCEPT !.message.StopReason = ev.Delta.StopReason]
              ELSE st
    IN  IF ev.Delta.ReasoningContent # ""
        THEN [s1 EXCEPT !.message.ReasoningContent = @ \o ev.Delta.ReasoningContent,
                        !.events = emit(@, "thinking", ev.Delta.ReasoningContent)]
        ELSE s1

\* case "message_stop"
OnMessageStop(st, ev) == [st EXCEPT !.events = emit(@, "message", st.message)]

\* strings.HasPrefix(line, "data: ")
HasDataPrefix(l) == l.prefix

\* a slip: the error of json.Unmarshal is not looked at
UnmarshalsUnchecked(l) == TRUE

\* json.Unmarshal([]byte(data), &event) returned no error
Unmarshals(l) == l.json

\* the switch on event.Type
OnEvent(st, ev) ==
    CASE ev.Type = "message_start" -> OnMessageStart(st, ev)
      [] ev.Type = "content_block_start" -> OnContentBlockStart(st, ev)
      [] ev.Type = "content_block_delta" -> OnContentBlockDelta(st, ev)
      [] ev.Type = "content_block_stop" -> OnContentBlockStop(st, ev)
      [] ev.Type = "message_delta" -> OnMessageDelta(st, ev)
      [] ev.Type = "message_stop" -> OnMessageStop(st, ev)
      [] OTHER -> st

\* the body of FinalMessage's read loop after the cancellation check
OnLine(st, l) ==
    IF ~HasDataPrefix(l) THEN st
    ELSE IF ~Unmarshals(l) THEN st
    ELSE OnEvent(st, l.ev)

\* what the read loop owns, as one record
LoopState ==
    [message |-> message[1], currentBlock |-> currentBlock,
     toolInputJSON |-> toolInputJSON, finalText |-> finalText, events |-> events]

Done == [once |-> doneOnce, sent |-> done]

(***************************************************************************)
(* Init: the stream MessagesService.Stream returns.                        *)
(***************************************************************************)
StreamInit(cap) ==
    /\ spc = "new" /\ mode = "" /\ bodyCap = cap
    /\ ctxDone = FALSE /\ aborted = FALSE /\ apc = "idle"
    /\ message = <<>> /\ currentBlock = <<>> /\ toolInputJSON = ""
    /\ finalText = "" /\ events = <<>> /\ done = <<>> /\ doneOnce = FALSE
    /\ line = CommentLine /\ nlines = 0 /\ wire = <<>>
    /\ response = <<>> /\ requests = 0
    /\ retMsg = <<>> /\ retErr = NoErr /\ ch = <<>> /\ chClosed = FALSE
    /\ abortedWhile = [spc |-> "", events |-> 0]

(***************************************************************************)
(* MessageStream.Abort, in its two effects.                                *)
(***************************************************************************)
AbortEmit ==
    /\ apc = "idle"
    /\ aborted' = TRUE
    /\ events' = emit(events, "abort", <<>>)
    /\ apc' = "cancel"
    /\ UNCHANGED <<spc, mode, bodyCap, ctxDone, message, currentBlock,
                   toolInputJSON, finalText, done, doneOnce, line, nlines, wire,
                   response, requests, retMsg, retErr, ch, chClosed, abortedWhile>>
    /\ UNCHANGED <<agentVars, toolVars, sub, extVars>>

AbortCancel ==
    /\ apc = "cancel"
    /\ ctxDone' = TRUE
    /\ apc' = "done"
    /\ abortedWhile' = [spc |-> spc, events |-> Len(events)]
    /\ UNCHANGED <<spc, mode, bodyCap, aborted, message, currentBlock,
                   toolInputJSON, finalText, events, done, doneOnce, line, nlines,
                   wire, response, requests, retMsg, retErr, ch, chClosed>>
    /\ UNCHANGED <<agentVars, toolVars, sub, extVars>>

(***************************************************************************)
(* MessageStream.FinalMessage.                                             *)
(***************************************************************************)
\* a slip in the status check: only server errors are taken for errors
IsErrorStatusOnly5xx(status) == status >= 500

\* resp.StatusCode != 200
IsErrorStatus(status) == status # 200

\* what FinalMessage does once the read loop has ended with scanner.Err() = err:
\* the events, the completion signal and the values returned
AfterLoop(evs, d, m, err) ==
    IF err # NoErr
    THEN [events |-> emit(evs, "error", err), done |-> signalDone(d, err),
          msg |-> <<>>, err |-> err]
    ELSE [events |-> emit(evs, "end", <<>>), done |-> signalDone(d, NoErr),
          msg |-> m, err |-> NoErr]

\* FinalMessage returns r.msg, r.err, having emitted and signalled as r says
FinalReturn(r) ==
    /\ spc' = "returned"
    /\ retMsg' = r.msg /\ retErr' = r.err
    /\ events' = r.events
    /\ done' = r.done.sent /\ doneOnce' = r.done.once

\* the return of an error met before the read loop: emit, signalDone, return nil
EarlyError(err) ==
    [events |-> emit(events, "error", err), done |-> signalDone(Done, err),
     msg |-> <<>>, err |-> err]

\* httpClient.Do and what follows it up to the read loop
FinalMessageDo ==
    /\ spc = "new"
    /\ mode' = "final"
    /\ requests' = requests + 1
    /\ \/ \* Do fails: the context is cancelled, or the transport fails
          /\ FinalReturn(EarlyError(IF ctxDone THEN Canceled ELSE TransportErr))
          /\ UNCHANGED <<message, response>>
       \/ \* a response whose status is taken for an error
          /\ ~ctxDone
          /\ \E status \in Statuses :
                /\ IsErrorStatus(status)
                /\ response' = <<status>>
                /\ FinalReturn(EarlyError(APIError(status, BodyOf(status))))
          /\ UNCHANGED message
       \/ \* any other response: the read loop starts
          /\ ~ctxDone
          /\ \E status \in Statuses :
                /\ ~IsErrorStatus(status)
                /\ response' = <<status>>
          /\ message' = <<EmptyMessage>>
          /\ spc' = "scan"
          /\ UNCHANGED <<retMsg, retErr, events, done, doneOnce>>
    /\ currentBlock' = <<>> /\ toolInputJSON' = ""
    /\ UNCHANGED <<bodyCap, ctxDone, aborted, apc, finalText, line, nlines, wire,
                   ch, chClosed, abortedWhile>>
    /\ UNCHANGED <<agentVars, toolVars, sub, extVars>>

\* scanner.Scan(), the cancellation check, and the end of the loop
FinalScan ==
    /\ spc = "scan" /\ mode = "final"
    /\ \/ \* Scan returns a line and the context is not cancelled
          /\ ~ctxDone /\ nlines < bodyCap
          /\ \E l \in Lines : line' = l
          /\ nlines' = nlines + 1
          /\ spc' = "dispatch"
          /\ UNCHANGED <<retMsg, retErr, events, done, doneOnce>>
       \/ \* Scan returns a buffered line and the context is cancelled
          /\ ctxDone /\ nlines < bodyCap
          /\ FinalReturn([events |-> events, done |-> signalDone(Done, Canceled),
                          msg |-> message, err |-> Canceled])
          /\ UNCHANGED <<line, nlines>>
       \/ \* Scan fails: the read was cut by cancel(), or the connection broke
          /\ FinalReturn(AfterLoop(events, Done, message,
                                   IF ctxDone THEN Canceled ELSE ReadErr))
          /\ UNCHANGED <<line, nlines>>
       \/ \* end of the body (the scanner may have met it before a cancel())
          /\ FinalReturn(AfterLoop(events, Done, message, NoErr))
          /\ UNCHANGED <<line, nlines>>
    /\ UNCHANGED <<mode, bodyCap, ctxDone, aborted, apc, message, currentBlock,
                   toolInputJSON, finalText, wire, response, requests, ch,
                   chClosed, abortedWhile>>
    /\ UNCHANGED <<agentVars, toolVars, sub, extVars>>

\* the loop body on the line read
FinalDispatch ==
    /\ spc = "dispatch" /\ mode = "final"
    /\ LET st == OnLine(LoopState, line) IN
        /\ message' = <<st.message>>
        /\ currentBlock' = st.currentBlock
        /\ toolInputJSON' = st.toolInputJSON
        /\ finalText' = st.finalText
        /\ events' = st.events
    /\ wire' = Append(wire, line)
    /\ spc' = "scan"
    /\ UNCHANGED <<mode, bodyCap, ctxDone, aborted, apc, done, doneOnce, line,
                   nlines, response, requests, retMsg, retErr, ch, chClosed,
                   abortedWhile>>
    /\ UNCHANGED <<agentVars, toolVars, sub, extVars>>

(***************************************************************************)
(* MessageStream.Events and its goroutine.                                 *)
(***************************************************************************)
\* make(chan Event, 100): the capacity of the channel Events returns
EventBuffer == 100

\* the lines a body of the given kind is made of
BodyLines(kind) == IF kind = "deltas" THEN {TextDeltaLine("a")} ELSE Lines

\* the line the loop body was entered with is to be sent on ch
IsSent(l) == HasDataPrefix(l) /\ Unmarshals(l)

\* ch <- ev blocks: the buffer holds EventBuffer events the consumer has not
\* received
ChannelFull(sent, received) == Len(sent) - received >= EventBuffer

EventsDo ==
    /\ spc = "new"
    /\ mode' = "events"
    /\ requests' = requests + 1
    /\ \/ \* Do fails: close(ch), return ch, err
          /\ retErr' = IF ctxDone THEN Canceled ELSE TransportErr
          /\ chClosed' = TRUE /\ spc' = "returned"
          /\ UNCHANGED response
       \/ \* a status other than 200: close(ch), return ch, &APIError{...}
          /\ ~ctxDone
          /\ \E status \in Statuses :
                /\ IsErrorStatus(status)
                /\ response' = <<status>>
                /\ retErr' = APIError(status, BodyOf(status))
          /\ chClosed' = TRUE /\ spc' = "returned"
       \/ \* 200: the goroutine starts and Events returns ch, nil
          /\ ~ctxDone
          /\ \E status \in Statuses :
                /\ ~IsErrorStatus(status)
                /\ response' = <<status>>
          /\ retErr' = NoErr
          /\ spc' = "scan"
          /\ UNCHANGED chClosed
    /\ UNCHANGED <<bodyCap, ctxDone, aborted, apc, message, currentBlock,
                   toolInputJSON, finalText, events, done, doneOnce, line, nlines,
                   wire, retMsg, ch, abortedWhile>>
    /\ UNCHANGED <<agentVars, toolVars, sub, extVars>>

\* the goroutine ends: signalDone(err), then the deferred close(ch)
EventsExit(err) ==
    /\ done' = signalDone(Done, err).sent
    /\ doneOnce' = signalDone(Done, err).once
    /\ chClosed' = TRUE
    /\ spc' = "returned"

\* the goroutine's scanner.Scan(), cancellation check and end of loop
EventsScan ==
    /\ spc = "scan" /\ mode = "events"
    /\ \/ /\ ~ctxDone /\ nlines < bodyCap
          /\ \E l \in BodyLines(body) : line' = l
          /\ nlines' = nlines + 1
          /\ spc' = "dispatch"
          /\ UNCHANGED <<done, doneOnce, chClosed>>
       \/ /\ ctxDone /\ nlines < bodyCap
          /\ EventsExit(Canceled)
          /\ UNCHANGED <<line, nlines>>
       \/ /\ EventsExit(IF ctxDone THEN Canceled ELSE ReadErr)
          /\ UNCHANGED <<line, nlines>>
       \/ /\ EventsExit(NoErr)
          /\ UNCHANGED <<line, nlines>>
    /\ UNCHANGED <<mode, bodyCap, ctxDone, aborted, apc, message, currentBlock,
                   toolInputJSON, finalText, events, wire, response, requests,
                   retMsg, retErr, ch, abortedWhile>>
    /\ UNCHANGED <<agentVars, toolVars, sub, extVars>>

\* the goroutine's loop body: skip the line or send its event on ch, which
\* waits while the buffer is full
EventsDispatch ==
    /\ spc = "dispatch" /\ mode = "events"
    /\ IsSent(line) => ~ChannelFull(ch, recv)
    /\ ch' = IF IsSent(line)
             THEN Append(ch, [Type |-> line.ev.Type, Data |-> line.ev])
             ELSE ch
    /\ wire' = Append(wire, line)
    /\ spc' = "scan"
    /\ UNCHANGED <<mode, bodyCap, ctxDone, aborted, apc, message, currentBlock,
                   toolInputJSON, finalText, events, done, doneOnce, line, nlines,
                   response, requests, retMsg, retErr, chClosed, abortedWhile>>
    /\ UNCHANGED <<agentVars, toolVars, sub, extVars>>

\* the consumer receives the next event from the channel
EventsReceive ==
    /\ mode = "events"
    /\ recv < Len(ch)
    /\ recv' = recv + 1
    /\ UNCHANGED <<rep, body, skill, sess>>
    /\ UNCHANGED <<streamVars, agentVars, toolVars, sub>>

(***************************************************************************)
(* The conversation loop: Agent.HandleInput, RunInferenceTurn, Save.       *)
(***************************************************************************)
\* claude.MessageParam, by the three kinds of Content the program stores
TextEntry(role, text) ==
    [Role |-> role, Kind |-> "text", Text |-> text, Blocks |-> <<>>, Results |-> <<>>]

BlocksEntry(blocks) ==
    [Role |-> "assistant", Kind |-> "blocks", Text |-> "", Blocks |-> blocks,
     Results |-> <<>>]

ResultsEntry(results) ==
    [Role |-> "user", Kind |-> "results", Text |-> "", Blocks |-> <<>>,
     Results |-> results]

\* tools.All() and tools.ReadOnly(), as sets of tool names
\* The git, glob and bash tools carry the names readOnlyTools knows them by;
\* their registrations use the earlier spelling "git", "glob" and "bash".
AllTools ==
    {"ReadFile", "WriteFile", "Ls", "Mkdir", "Rm", "Grep", "ReplaceText", "Task",
     "InvokeSkill", "AskUserQuestion", "ExitPlanMode", "TodoWrite",
     "Git", "Glob", "Bash"}

readOnlyTools ==
    {"ReadFile", "Ls", "Grep", "Git", "Glob", "AskUserQuestion", "ExitPlanMode"}

ReadOnly == {t \in AllTools : t \in readOnlyTools}

\* the content blocks a message of the model is made of; the list its
\* TodoWrite call writes holds a pending item
ModelBlocks ==
    { ContentBlock("text", "hi", "", "", "", ""),
      ContentBlock("tool_use", "", "a", "TodoWrite", "{}", ""),
      ContentBlock("tool_use", "", "b", "ExitPlanMode", "{}", "") }

\* the contents FinalMessage can return, of at most cap blocks
ModelContents(cap) == UNION { [1..n -> ModelBlocks] : n \in 0..cap }

AcceptOutput == "{\"decision\":\"Accept\"}"

DenyOutput == "{\"decision\":\"Deny\"}"

\* the texts tools.Execute(name, input) can return
ToolOutputs(name) ==
    CASE name = "ExitPlanMode" -> {AcceptOutput, DenyOutput}
      [] OTHER -> {"ok"}

\* strings.Contains(result.String(), `"decision":"Accept"`)
ContainsAccept(out) == out = AcceptOutput

RECURSIVE executeToolsReversed(_, _, _)
\* a slip in executeTools: each result is put in front of the earlier ones
executeToolsReversed(blocks, outs, acc) ==
    IF blocks = <<>> THEN acc
    ELSE IF Head(blocks).Type # "tool_use"
    THEN executeToolsReversed(Tail(blocks), outs, acc)
    ELSE LET block == Head(blocks)
             out == Head(outs)
         IN executeToolsReversed(Tail(blocks), Tail(outs),
                [acc EXCEPT
                    !.turnsSinceTodoWrite = IF block.Name = "TodoWrite" THEN 0 ELSE @,
                    !.pendingTodos = IF block.Name = "TodoWrite" THEN TRUE ELSE @,
                    !.planMode = IF block.Name = "ExitPlanMode" /\ ContainsAccept(out)
                                 THEN FALSE ELSE @,
                    !.results = <<[Type |-> "tool_result", ToolUseID |-> block.ID,
                                   Content |-> out]>> \o @])

RECURSIVE executeTools(_, _, _)
\* Agent.executeTools on blocks, with outs the texts the tools return in turn;
\* acc = [results, planMode, turnsSinceTodoWrite, pendingTodos]
executeTools(blocks, outs, acc) ==
    IF blocks = <<>> THEN acc
    ELSE IF Head(blocks).Type # "tool_use"
    THEN executeTools(Tail(blocks), outs, acc)
    ELSE LET block == Head(blocks)
             out == Head(outs)
         IN executeTools(Tail(blocks), Tail(outs),
                [acc EXCEPT
                    !.turnsSinceTodoWrite = IF block.Name = "TodoWrite" THEN 0 ELSE @,
                    !.pendingTodos = IF block.Name = "TodoWrite" THEN TRUE ELSE @,
                    !.planMode = IF block.Name = "ExitPlanMode" /\ ContainsAccept(out)
                                 THEN FALSE ELSE @,
                    !.results = Append(@, [Type |-> "tool_result",
                                           ToolUseID |-> block.ID,
                                           Content |-> out])])

\* the tool_use blocks among blocks, in order
ToolUses(blocks) == SelectSeq(blocks, LAMBDA b : b.Type = "tool_use")

\* the texts the tools of blocks can return, one per tool_use block
OutputsFor(blocks) ==
    { outs \in [1..Len(ToolUses(blocks)) -> {"ok", AcceptOutput, DenyOutput}] :
        \A i \in 1..Len(ToolUses(blocks)) :
            outs[i] \in ToolOutputs(ToolUses(blocks)[i].Name) }

todoReminder(state) ==
    IF state.TurnsSinceTodoWrite >= 3 /\ state.HasPendingTodos
    THEN "<system-reminder>todo</system-reminder>" ELSE ""

planModeReminder(state) ==
    IF state.PlanMode THEN "<system-reminder>plan</system-reminder>" ELSE ""

\* GetReminders: the applicable reminders joined by "\n"
GetReminders(state) ==
    LET t == todoReminder(state)
        p == planModeReminder(state)
    IN  IF t # "" /\ p # "" THEN t \o "\n" \o p ELSE t \o p

\* a slip: the reminders are appended to the first result of the batch
WithRemindersOnFirst(results, reminders) ==
    IF reminders = "" THEN results
    ELSE [results EXCEPT ![1].Content = @ \o "\n" \o reminders]

\* the batch with the reminders appended to the last result
WithReminders(results, reminders) ==
    IF reminders = "" THEN results
    ELSE [results EXCEPT ![Len(results)].Content = @ \o "\n" \o reminders]

\* the errors fetchResponse can return
FetchErrors == {TransportErr, APIError(500, "oops"), Canceled}

\* a slip: the assistant entry is appended before the error is looked at
CommittedBeforeErrorCheck(ms, content, err) == Append(ms, BlocksEntry(content))

\* a.messages after fetchResponse returned (msg with this content, err)
Committed(ms, content, err) ==
    IF err # NoErr THEN ms ELSE Append(ms, BlocksEntry(content))

\* a slip: a single tool result is dropped and ends the turn
NoToolResultsOrOne(results) == Len(results) <= 1

\* len(toolResults) == 0
NoToolResults(results) == Len(results) = 0

\* a new session, with the responses and blocks the model is good for
AgentInitWith(responses, blocks) ==
    /\ turn = "idle" /\ messages = <<>> /\ planMode = FALSE
    /\ turnsSinceTodoWrite = 0 /\ pendingTodos = FALSE
    /\ toolSet = {} /\ turnErr = NoErr /\ nresp = 0 /\ ninputs = 0
    /\ respCap = responses /\ blockCap = blocks

AgentInit == AgentInitWith(MaxResponses, MaxBlocks)

RECURSIVE PlainHistory(_)
\* a.messages after n turns in which the user wrote and the model answered
\* with a text
PlainHistory(n) ==
    IF n = 0 THEN <<>>
    ELSE PlainHistory(n - 1) \o
            << TextEntry("user", "hello"),
               BlocksEntry(<<ContentBlock("text", "hi", "", "", "", "")>>) >>

\* the agent of a session, resumed with or without pending todos, after
\* PlainTurns such turns: Save has counted some or all of them, /plan may
\* have been typed, and one more line of input is to come
AgentAfterPlainTurns ==
    /\ turn = "idle" /\ messages = PlainHistory(PlainTurns)
    /\ planMode \in BOOLEAN
    /\ turnsSinceTodoWrite \in 0..PlainTurns
    /\ pendingTodos \in BOOLEAN
    /\ toolSet = AllTools /\ turnErr = NoErr /\ nresp = 0
    /\ ninputs = MaxInputs - 1
    /\ respCap = MaxResponses /\ blockCap = MaxBlocks

\* the characters of the lines of input the model reads
InputChars(input) ==
    CASE input = "/plan" -> <<"/", "p", "l", "a", "n">>
      [] input = "!!ls"  -> <<"!", "!", "l", "s">>
      [] input = "!ls"   -> <<"!", "l", "s">>
      [] input = "!!"    -> <<"!", "!">>
      [] input = "!"     -> <<"!">>
      [] input = ""      -> <<>>
      [] OTHER           -> <<"h", "e", "l", "l", "o">>

RECURSIVE TextOf(_)
\* the string made of the characters chars
TextOf(chars) == IF chars = <<>> THEN "" ELSE Head(chars) \o TextOf(Tail(chars))

\* strings.CutPrefix(text, prefix): what follows the prefix, and whether the
\* prefix was there
CutPrefix(text, prefix) ==
    IF Len(text) >= Len(prefix) /\ SubSeq(text, 1, Len(prefix)) = prefix
    THEN [after |-> SubSeq(text, Len(prefix) + 1, Len(text)), ok |-> TRUE]
    ELSE [after |-> text, ok |-> FALSE]

\* the entry HandleInput appends for "!!cmd": the command and its output
BashContext(cmd) == TextEntry("user", "$ " \o TextOf(cmd) \o "\n" \o "out")

\* HandleInput with the plan-mode flag set rather than flipped by "/plan"
HandleInputReturnSticky(planOn, msgs, input) ==
    LET two == CutPrefix(InputChars(input), <<"!", "!">>)
        one == CutPrefix(InputChars(input), <<"!">>)
    IN  IF input = "/plan"
        THEN [planMode |-> TRUE, messages |-> msgs, shouldInfer |-> FALSE]
        ELSE IF two.ok
        THEN [planMode |-> planOn,
              messages |-> Append(msgs, BashContext(two.after)),
              shouldInfer |-> FALSE]
        ELSE IF one.ok
        THEN [planMode |-> planOn, messages |-> msgs, shouldInfer |-> FALSE]
        ELSE [planMode |-> planOn,
              messages |-> Append(msgs, TextEntry("user", input)),
              shouldInfer |-> TRUE]

\* HandleInput with the prefix "!" tested before the prefix "!!"
HandleInputReturnBangFirst(planOn, msgs, input) ==
    LET two == CutPrefix(InputChars(input), <<"!", "!">>)
        one == CutPrefix(InputChars(input), <<"!">>)
    IN  IF input = "/plan"
        THEN [planMode |-> ~planOn, messages |-> msgs, shouldInfer |-> FALSE]
        ELSE IF one.ok
        THEN [planMode |-> planOn, messages |-> msgs, shouldInfer |-> FALSE]
        ELSE IF two.ok
        THEN [planMode |-> planOn,
              messages |-> Append(msgs, BashContext(two.after)),
              shouldInfer |-> FALSE]
        ELSE [planMode |-> planOn,
              messages |-> Append(msgs, TextEntry("user", input)),
              shouldInfer |-> TRUE]

\* what HandleInput leaves in a.planMode and a.messages, and the shouldInfer
\* it returns, for the line input: "/plan", then the prefix "!!", then the
\* prefix "!", then a message for the model
HandleInputReturn(planOn, msgs, input) ==
    LET two == CutPrefix(InputChars(input), <<"!", "!">>)
        one == CutPrefix(InputChars(input), <<"!">>)
    IN  IF input = "/plan"
        THEN [planMode |-> ~planOn, messages |-> msgs, shouldInfer |-> FALSE]
        ELSE IF two.ok
        THEN [planMode |-> planOn,
              messages |-> Append(msgs, BashContext(two.after)),
              shouldInfer |-> FALSE]
        ELSE IF one.ok
        THEN [planMode |-> planOn, messages |-> msgs, shouldInfer |-> FALSE]
        ELSE [planMode |-> planOn,
              messages |-> Append(msgs, TextEntry("user", input)),
              shouldInfer |-> TRUE]

\* one line of input read by the main loop and handed to HandleInput; the
\* loop runs an inference turn only when shouldInfer is returned
HandleInput(input) ==
    /\ turn = "idle"
    /\ ninputs < MaxInputs
    /\ ninputs' = ninputs + 1
    /\ LET ret == HandleInputReturn(planMode, messages, input)
       IN  /\ planMode' = ret.planMode
           /\ messages' = ret.messages
           /\ turn' = IF ret.shouldInfer THEN "infer" ELSE "idle"
    /\ UNCHANGED <<turnsSinceTodoWrite, pendingTodos, toolSet, turnErr, nresp,
                   respCap, blockCap>>
    /\ UNCHANGED <<streamVars, toolVars, sub, extVars>>

\* the lines the user types
InputLines == {"/plan", "!!ls", "!ls", "hello"}

Input == \E input \in InputLines : HandleInput(input)

\* one iteration of the loop of RunInferenceTurn
InferenceStep ==
    /\ turn = "infer"
    /\ toolSet' = IF planMode THEN ReadOnly ELSE AllTools
    /\ \/ \* fetchResponse fails: return err
          /\ \E err \in FetchErrors :
                /\ turnErr' = err
                /\ messages' = Committed(messages, <<>>, err)
          /\ turn' = "save"
          /\ UNCHANGED <<planMode, turnsSinceTodoWrite, pendingTodos, nresp>>
       \/ \* a message: append it, run its tools, append their results
          /\ nresp < respCap
          /\ nresp' = nresp + 1
          /\ \E content \in ModelContents(blockCap) : \E outs \in OutputsFor(content) :
            LET ran == executeTools(content, outs,
                          [results |-> <<>>, planMode |-> planMode,
                           turnsSinceTodoWrite |-> turnsSinceTodoWrite,
                           pendingTodos |-> pendingTodos])
                reminders == GetReminders(
                          [PlanMode |-> ran.planMode,
                           TurnsSinceTodoWrite |-> ran.turnsSinceTodoWrite,
                           HasPendingTodos |-> ran.pendingTodos])
            IN  /\ planMode' = ran.planMode
                /\ turnsSinceTodoWrite' = ran.turnsSinceTodoWrite
                /\ pendingTodos' = ran.pendingTodos
                /\ IF NoToolResults(ran.results)
                   THEN /\ messages' = Committed(messages, content, NoErr)
                        /\ turnErr' = NoErr
                        /\ turn' = "save"
                   ELSE /\ messages' =
                              Append(Committed(messages, content, NoErr),
                                     ResultsEntry(WithReminders(ran.results, reminders)))
                        /\ UNCHANGED <<turnErr, turn>>
    /\ UNCHANGED <<ninputs, respCap, blockCap>>
    /\ UNCHANGED <<streamVars, toolVars, sub, extVars>>

\* NewAgent: a.permissionsMode for the mode of the session file ("" if none)
NewAgentMode(saved) == IF saved # "" THEN saved ELSE "prompt"

\* sess: a.permissionsMode; the PermissionsMode of the session file (a
\* pointer, <<>> while nothing is saved); and tools.permissionsMode at the
\* time of that save
SessState(agentMode, saved, toolsMode) ==
    [agentMode |-> agentMode, saved |-> saved, toolsMode |-> toolsMode]

\* a new session, nothing saved
SessNew == sess = SessState(NewAgentMode(""), <<>>, "prompt")

\* saveSession(a.sessionID, ..., a.permissionsMode, ...)
saveSession(pmode) == <<pmode>>

\* Agent.Save after the turn: the session is written and the turn counted,
\* or there is no session or the write fails
Save ==
    /\ turn = "save"
    /\ turn' = "idle"
    /\ \/ /\ turnsSinceTodoWrite' = turnsSinceTodoWrite + 1
          /\ sess' = SessState(sess.agentMode, saveSession(sess.agentMode),
                               permissionsMode)
       \/ UNCHANGED <<turnsSinceTodoWrite, sess>>
    /\ UNCHANGED <<messages, planMode, pendingTodos, toolSet, turnErr, nresp, ninputs,
                   respCap, blockCap>>
    /\ UNCHANGED <<streamVars, toolVars, sub, rep, recv, body, skill>>

(***************************************************************************)
(* The tools package: the permission gate, the filesystem tools and the    *)
(* git tool.  A text is the sequence of its parts.                         *)
(***************************************************************************)
Paths == {"p"}

\* the text executeTools looks for in the result of ExitPlanMode
AcceptMarker == "\"decision\":\"Accept\""

\* what a path holds: nothing, the committed text, a changed text, a text
\* that quotes an accepted decision, a directory
FileStates == {"absent", "old", "new", AcceptMarker, "dir"}

\* the lines the user can type at the [y/n/a] prompt; "" is end of input
Responses == {"a\n", " ALL \n", "y\n", "Yes\n", "n\n", "ok\n", "\n", ""}

\* strings.TrimSpace(strings.ToLower(reply))
TrimLower(reply) ==
    CASE reply = "a\n" -> "a"
      [] reply = " ALL \n" -> "all"
      [] reply = "y\n" -> "y"
      [] reply = "Yes\n" -> "yes"
      [] reply = "n\n" -> "n"
      [] reply = "ok\n" -> "ok"
      [] OTHER -> ""

\* SetPermissionsMode(pmode): the new permissionsMode
SetPermissionsMode(pmode) == pmode

\* a slip in Init: the configured mode is ignored
ToolsInitModeIgnored(cfgMode) == "accept_all"

\* tools.Init: permissionsMode for the configured mode
ToolsInitMode(cfgMode) == IF cfgMode = "" THEN "prompt" ELSE cfgMode

\* a slip in the gate: every answer but a refusal counts as consent
RequestPermissionLenient(pmode, reply) ==
    IF pmode = "accept_all"
    THEN [allowed |-> TRUE, reason |-> "auto-accepted (session mode)",
          setAcceptAll |-> FALSE, asked |-> FALSE]
    ELSE [allowed |-> TrimLower(reply) # "n", reason |-> "permission granted",
          setAcceptAll |-> TrimLower(reply) \in {"a", "all"}, asked |-> TRUE]

\* a slip in the gate: accept_all pmode asks all the same
RequestPermissionAlwaysAsks(pmode, reply) ==
    LET r == TrimLower(reply) IN
    IF r = "a" \/ r = "all"
    THEN [allowed |-> TRUE, reason |-> "permission granted (accept all this session)",
          setAcceptAll |-> TRUE, asked |-> TRUE]
    ELSE IF r = "y" \/ r = "yes"
    THEN [allowed |-> TRUE, reason |-> "permission granted",
          setAcceptAll |-> FALSE, asked |-> TRUE]
    ELSE [allowed |-> FALSE, reason |-> "permission denied",
          setAcceptAll |-> FALSE, asked |-> TRUE]

\* RequestPermissionWithDiff under permissionsMode = pmode, the user typing
\* reply if asked: (allowed, reason, setAcceptAll), and whether it asked
RequestPermissionWithDiff(pmode, reply) ==
    IF pmode = "accept_all"
    THEN [allowed |-> TRUE, reason |-> "auto-accepted (session mode)",
          setAcceptAll |-> FALSE, asked |-> FALSE]
    ELSE LET r == TrimLower(reply) IN
         IF r = "a" \/ r = "all"
         THEN [allowed |-> TRUE,
               reason |-> "permission granted (accept all this session)",
               setAcceptAll |-> TRUE, asked |-> TRUE]
         ELSE IF r = "y" \/ r = "yes"
         THEN [allowed |-> TRUE, reason |-> "permission granted",
               setAcceptAll |-> FALSE, asked |-> TRUE]
         ELSE [allowed |-> FALSE, reason |-> "permission denied",
               setAcceptAll |-> FALSE, asked |-> TRUE]

\* tools.Error(msg)
Error(msg) == <<"error">> \o msg

\* what a tool call leaves: the filesystem, permissionsMode, the result's
\* text, and what the gate returned if it was consulted (a pointer)
Outcome(f, pmode, output, perm) ==
    [fs |-> f, pmode |-> pmode, output |-> output, perm |-> perm]

\* permissionsMode after the gate returned perm
AfterGate(pmode, perm) ==
    IF perm.setAcceptAll THEN SetPermissionsMode("accept_all") ELSE pmode

readFile(f, pmode, in) ==
    IF ~in.valid THEN Outcome(f, pmode, Error(<<"invalid input">>), <<>>)
    ELSE IF f[in.path] \in {"absent", "dir"}
    THEN Outcome(f, pmode, Error(<<"read">>), <<>>)
    ELSE Outcome(f, pmode, <<f[in.path]>>, <<>>)

writeFile(f, pmode, in, reply) ==
    IF ~in.valid THEN Outcome(f, pmode, Error(<<"invalid input">>), <<>>)
    ELSE LET perm == RequestPermissionWithDiff(pmode, reply)
             m == AfterGate(pmode, perm)
         IN IF ~perm.allowed
            THEN Outcome(f, m, Error(<<"permission denied: ", perm.reason>>), <<perm>>)
            ELSE IF f[in.path] = "dir"
            THEN Outcome(f, m, Error(<<"is a directory">>), <<perm>>)
            ELSE Outcome([f EXCEPT ![in.path] = "new"], m,
                         <<"wrote to", in.path>>, <<perm>>)

mkdir(f, pmode, in) ==
    IF ~in.valid THEN Outcome(f, pmode, Error(<<"invalid input">>), <<>>)
    ELSE IF f[in.path] \notin {"absent", "dir"}
    THEN Outcome(f, pmode, Error(<<"not a directory">>), <<>>)
    ELSE Outcome([f EXCEPT ![in.path] = "dir"], pmode,
                 <<"created directory", in.path>>, <<>>)

\* a slip in rm: a refusal is reported but the path is removed all the same
rmDespiteDenial(f, pmode, in, reply) ==
    LET perm == RequestPermissionWithDiff(pmode, reply) IN
    IF ~perm.allowed
    THEN Outcome([f EXCEPT ![in.path] = "absent"], AfterGate(pmode, perm),
                 Error(<<"permission denied: ", perm.reason>>), <<perm>>)
    ELSE Outcome([f EXCEPT ![in.path] = "absent"], AfterGate(pmode, perm),
                 <<"removed", in.path>>, <<perm>>)

rm(f, pmode, in, reply) ==
    IF ~in.valid THEN Outcome(f, pmode, Error(<<"invalid input">>), <<>>)
    ELSE LET perm == RequestPermissionWithDiff(pmode, reply)
             m == AfterGate(pmode, perm)
         IN IF ~perm.allowed
            THEN Outcome(f, m, Error(<<"permission denied: ", perm.reason>>), <<perm>>)
            ELSE IF f[in.path] = "absent"
            THEN Outcome(f, m, Error(<<"no such file or directory">>), <<perm>>)
            ELSE Outcome([f EXCEPT ![in.path] = "absent"], m,
                         <<"removed", in.path>>, <<perm>>)

\* replaceText with an old_text that the committed text holds once
replaceText(f, pmode, in, reply) ==
    IF ~in.valid THEN Outcome(f, pmode, Error(<<"invalid input">>), <<>>)
    ELSE IF f[in.path] \in {"absent", "dir"}
    THEN Outcome(f, pmode, Error(<<"reading">>), <<>>)
    ELSE IF f[in.path] # "old"
    THEN Outcome(f, pmode, Error(<<"old_text not found">>), <<>>)
    ELSE LET perm == RequestPermissionWithDiff(pmode, reply)
             m == AfterGate(pmode, perm)
         IN IF ~perm.allowed
            THEN Outcome(f, m, Error(<<"permission denied: ", perm.reason>>), <<perm>>)
            ELSE Outcome([f EXCEPT ![in.path] = "new"], m, <<"replaced">>, <<perm>>)

\* readOnlyGitCommands, blockedSubcommands and blockedFlags of the git tool
readOnlyGitCommands ==
    {"status", "log", "show", "diff", "branch", "tag", "remote", "fetch",
     "ls-files", "ls-remote", "rev-parse", "describe", "blame", "archive",
     "config", "grep", "shortlog", "count-objects", "cat-file", "hash-object",
     "verify-pack", "show-ref", "symbolic-ref", "for-each-ref", "checkout"}

blockedSubcommands ==
    {"commit", "merge", "rebase", "cherry-pick", "revert", "push", "pull",
     "stash", "clean", "restore", "switch", "am", "bisect"}

blockedFlags(cmd) ==
    CASE cmd = "branch" -> {"-d", "-D", "-m", "-M", "--delete", "--move", "--rename"}
      [] cmd = "tag" -> {"-d", "-D", "--delete"}
      [] cmd = "remote" -> {"add", "remove", "set-head", "set-branches", "set-url",
                            "prune", "update"}
      [] cmd = "config" -> {"--set", "--add", "--unset", "--remove-section",
                            "--rename-section"}
      [] cmd = "checkout" -> {"-b", "-B"}
      [] cmd = "log" -> {"--reverse"}
      [] OTHER -> {}

\* validateGitCommand without the check of the flags
validateGitCommandAnyFlag(args) ==
    /\ Len(args) > 0
    /\ args[1] \notin blockedSubcommands
    /\ args[1] \in readOnlyGitCommands

\* validateGitCommand(args) returns no error
validateGitCommand(args) ==
    /\ Len(args) > 0
    /\ args[1] \notin blockedSubcommands
    /\ args[1] \in readOnlyGitCommands
    /\ \A i \in 2..Len(args) : args[i] \notin blockedFlags(args[1])

\* the argument lists the model gives the git tool
GitCalls ==
    { <<>>, <<"status">>, <<"log", "--reverse">>, <<"commit", "-m">>,
      <<"reset", "--hard">>, <<"branch", "-d", "x">>,
      <<"checkout", "-b", "x">>, <<"checkout", "--", "p">> }

\* The working tree after exec.Command("git", args...): "checkout -- p" puts
\* the committed text back in p, whatever p held; the other argument lists of
\* GitCalls that pass the validation leave the working tree alone.
GitEffect(f, args) ==
    IF Len(args) = 3 /\ args[1] = "checkout" /\ args[2] = "--"
    THEN [f EXCEPT ![args[3]] = "old"]
    ELSE f

git(f, pmode, in) ==
    IF ~in.valid THEN Outcome(f, pmode, Error(<<"invalid input">>), <<>>)
    ELSE IF ~validateGitCommand(in.args)
    THEN Outcome(f, pmode, Error(<<"not allowed in read-only mode">>), <<>>)
    ELSE Outcome(GitEffect(f, in.args), pmode, <<"git">> \o in.args, <<>>)

\* the lines the user can type at the plan review prompt; "" is end of input
PlanAnswers == {"1\n", " 2 \n", "3\n", "invalid\n", "0\n", "4\n", "\n", ""}

\* strings.TrimSpace(text)
TrimSpace(text) ==
    CASE text = "1\n" -> "1"
      [] text = " 2 \n" -> "2"
      [] text = "3\n" -> "3"
      [] text = "invalid\n" -> "invalid"
      [] text = "0\n" -> "0"
      [] text = "4\n" -> "4"
      [] OTHER -> ""

\* strconv.Atoi(text): the number, and whether there was no error
Atoi(text) ==
    CASE text = "0" -> [num |-> 0, ok |-> TRUE]
      [] text = "1" -> [num |-> 1, ok |-> TRUE]
      [] text = "2" -> [num |-> 2, ok |-> TRUE]
      [] text = "3" -> [num |-> 3, ok |-> TRUE]
      [] text = "4" -> [num |-> 4, ok |-> TRUE]
      [] OTHER -> [num |-> 0, ok |-> FALSE]

\* promptDecision: the decision for the line the user typed (the optional
\* note of Deny and Continue is left empty)
promptDecision(text) ==
    LET a == Atoi(TrimSpace(text)) IN
    IF ~a.ok \/ a.num < 1 \/ a.num > 3 THEN "Continue"
    ELSE CASE a.num = 1 -> "Accept"
           [] a.num = 2 -> "Deny"
           [] a.num = 3 -> "Continue"

\* exitPlanModeResult.String(): the JSON object of the decision
exitPlanModeResultString(decision) ==
    <<"{", "\"decision\":\"" \o decision \o "\"", "}">>

executeExitPlanMode(f, pmode, in, reply) ==
    IF ~in.valid THEN Outcome(f, pmode, Error(<<"invalid input">>), <<>>)
    ELSE Outcome(f, pmode, exitPlanModeResultString(promptDecision(reply)), <<>>)

\* strings.Contains(text, part), for a text given by its parts
Contains(text, part) == \E i \in 1..Len(text) : text[i] = part

\* a slip in executeTools: the name of the tool is not looked at
exitsPlanModeAnyTool(name, output) == Contains(output, AcceptMarker)

\* executeTools' test for switching plan mode off
exitsPlanMode(name, output) ==
    name = "ExitPlanMode" /\ Contains(output, AcceptMarker)

\* tools.Execute(name, input), with no skill restriction in force
Execute(name, in, f, pmode, reply) ==
    CASE name = "ReadFile" -> readFile(f, pmode, in)
      [] name = "WriteFile" -> writeFile(f, pmode, in, reply)
      [] name = "Mkdir" -> mkdir(f, pmode, in)
      [] name = "Rm" -> rm(f, pmode, in, reply)
      [] name = "ReplaceText" -> replaceText(f, pmode, in, reply)
      [] name = "Git" -> git(f, pmode, in)
      [] name = "ExitPlanMode" -> executeExitPlanMode(f, pmode, in, reply)
      [] OTHER -> Outcome(f, pmode, <<"unknown tool">>, <<>>)

ToolInput(valid, path, args) == [valid |-> valid, path |-> path, args |-> args]

\* the tool calls a message of the model can hold
ToolCalls ==
    { [Name |-> n, Input |-> ToolInput(TRUE, "p", <<>>)] :
        n \in {"ReadFile", "WriteFile", "Mkdir", "Rm", "ReplaceText"} }
    \cup { [Name |-> "WriteFile", Input |-> ToolInput(FALSE, "", <<>>)] }
    \cup { [Name |-> "ExitPlanMode", Input |-> ToolInput(v, "", <<>>)] : v \in BOOLEAN }
    \cup { [Name |-> "Git", Input |-> ToolInput(TRUE, "", a)] : a \in GitCalls }

\* the lines the user can type while the tool runs
RepliesFor(name) == IF name = "ExitPlanMode" THEN PlanAnswers ELSE Responses

\* the identifier of the i-th tool_use block of a message
BlockID(i) == CASE i = 1 -> "t1" [] i = 2 -> "t2" [] i = 3 -> "t3" [] OTHER -> "t4"

\* the history record of a tool call
Call(name, id, in, reply, modeBefore, fsBefore, planBefore, out) ==
    [name |-> name, id |-> id, input |-> in, reply |-> reply,
     modeBefore |-> modeBefore, fsBefore |-> fsBefore, planBefore |-> planBefore,
     perm |-> out.perm, output |-> out.output]

NoOutcome(f, pmode) == Outcome(f, pmode, <<>>, <<>>)

\* the tools package and the filesystem while no tool runs
ToolsIdle ==
    /\ fs = [p \in Paths |-> "absent"]
    /\ permissionsMode = "prompt"
    /\ todo = 0 /\ toolResults = <<>> /\ nbatches = 0
    /\ last = Call("", "", ToolInput(TRUE, "", <<>>), "", "prompt", fs,
                   FALSE, NoOutcome(fs, "prompt"))

\* the modes main can hand to tools.Init: "prompt" for a new session, the
\* saved mode (if any) for a resumed one
SessionModes ==
    { [session |-> "new", pmode |-> "prompt"],
      [session |-> "resumed", pmode |-> "prompt"],
      [session |-> "resumed", pmode |-> "accept_all"] }

\* main up to the input loop: tools.Init and NewAgent for a new or resumed session
ToolsInit ==
    /\ fs \in [Paths -> FileStates]
    /\ planMode \in BOOLEAN
    /\ \E cfg \in SessionModes :
        /\ permissionsMode = ToolsInitMode(cfg.pmode)
        /\ last = Call("Init", cfg.session, ToolInput(TRUE, "", <<>>), "", cfg.pmode,
                       fs, planMode, NoOutcome(fs, permissionsMode))
    /\ todo = 0 /\ toolResults = <<>> /\ nbatches = 0
    /\ turn = "infer" /\ messages = <<>>
    /\ turnsSinceTodoWrite = 0 /\ pendingTodos = FALSE
    /\ toolSet = {} /\ turnErr = NoErr /\ nresp = 0 /\ ninputs = 0
    /\ respCap = 0 /\ blockCap = 0

\* a message with tool_use blocks arrives for a request that offered toolSet
NewBatch ==
    /\ todo = 0
    /\ nbatches < MaxBatches
    /\ nbatches' = nbatches + 1
    /\ toolSet' = IF planMode THEN ReadOnly ELSE AllTools
    /\ \E n \in 1..MaxBatch : todo' = n
    /\ toolResults' = <<>>
    /\ UNCHANGED <<permissionsMode, fs, last>>
    /\ UNCHANGED <<turn, messages, planMode, turnsSinceTodoWrite, pendingTodos,
                   turnErr, nresp, respCap, blockCap, ninputs>>
    /\ UNCHANGED <<streamVars, sub, extVars>>

\* executeTools on the next tool_use block of the message, the model naming
\* one of the tools names
ExecuteBlockNaming(names) ==
    /\ todo > 0
    /\ \E call \in ToolCalls : \E reply \in RepliesFor(call.Name) :
        LET out == Execute(call.Name, call.Input, fs, permissionsMode, reply)
            id == BlockID(Len(toolResults) + 1)
            asked == \/ out.perm # <<>> /\ out.perm[1].asked
                     \/ call.Name = "ExitPlanMode" /\ call.Input.valid
            shown == IF asked THEN reply ELSE "-"
        IN  /\ call.Name \in names
            /\ fs' = out.fs
            /\ permissionsMode' = out.pmode
            /\ toolResults' = Append(toolResults, [Type |-> "tool_result", ToolUseID |-> id,
                                           Content |-> out.output])
            /\ last' = Call(call.Name, id, call.Input, shown, permissionsMode, fs,
                            planMode, out)
            /\ turnsSinceTodoWrite' =
                    IF call.Name = "TodoWrite" THEN 0 ELSE turnsSinceTodoWrite
            /\ planMode' = IF exitsPlanMode(call.Name, out.output) THEN FALSE
                           ELSE planMode
    /\ todo' = todo - 1
    /\ UNCHANGED nbatches
    /\ UNCHANGED <<turn, messages, pendingTodos, toolSet, turnErr, nresp, respCap,
                   blockCap, ninputs>>
    /\ UNCHANGED <<streamVars, sub, extVars>>

\* executeTools on the next tool_use block of a message that uses the tools
\* it was offered
ExecuteBlock == ExecuteBlockNaming(toolSet)

\* executeTools on the next tool_use block of a message that names any
\* registered tool, offered in the request or not
ExecuteNamedBlock == ExecuteBlockNaming(AllTools)

(***************************************************************************)
(* RunSubagent and the Done tool.  The texts of this part are sequences of *)
(* characters, so that prefixes and lengths are those of the code.         *)
(***************************************************************************)
\* strings.Repeat(c, n)
Repeat(c, n) == [i \in 1..n |-> c]

DoneSignalPrefix == <<"D", "O", "N", "E", "_", "S", "I", "G", "N", "A", "L", ":">>

\* the length executeDone cuts a summary to
MaxSummaryLen == 500

\* const maxTurns of RunSubagent
maxTurns == 100

\* the summaries the model passes to Done: a short one, and one of one
\* character more than executeDone keeps
Summaries == { <<"o", "k">>, Repeat("x", MaxSummaryLen + 1) }

\* the texts a file read by the subagent holds
FileTexts == { <<"d", "a", "t", "a">>, DoneSignalPrefix \o Repeat("x", MaxSummaryLen + 1) }

\* strings.HasPrefix(text, prefix)
HasPrefix(text, prefix) ==
    Len(text) >= Len(prefix) /\ SubSeq(text, 1, Len(prefix)) = prefix

\* strings.TrimPrefix(text, prefix)
TrimPrefix(text, prefix) ==
    IF HasPrefix(text, prefix) THEN SubSeq(text, Len(prefix) + 1, Len(text)) ELSE text

\* executeDone(input): the text of its result
executeDone(in) ==
    IF ~in.valid THEN <<"e", "r", "r", "o", "r">>
    ELSE DoneSignalPrefix \o
            (IF Len(in.summary) > MaxSummaryLen
             THEN SubSeq(in.summary, 1, MaxSummaryLen) ELSE in.summary)

SubBlock(type, name, in) == [Type |-> type, Name |-> name, Input |-> in]

SubInput(valid, summary) == [valid |-> valid, summary |-> summary]

\* the content blocks a message to the subagent is made of; the input of a
\* ReadFile block stands for the text of the file it names
SubBlocks ==
    { SubBlock("text", "", SubInput(TRUE, <<"h", "i">>)) }
    \cup { SubBlock("tool_use", "Done", SubInput(TRUE, x)) : x \in Summaries }
    \cup { SubBlock("tool_use", "Done", SubInput(FALSE, <<>>)) }
    \cup { SubBlock("tool_use", "ReadFile", SubInput(TRUE, x)) : x \in FileTexts }

SubContents == UNION { [1..n -> SubBlocks] : n \in 0..MaxSubBlocks }

\* content blocks that name tools, some of them not offered to the subagent
NamedBlocks ==
    { SubBlock("tool_use", n, SubInput(TRUE, <<"o", "u", "t">>)) :
        n \in {"ReadFile", "Bash", "Rm", "Task"} }

NamedContents == UNION { [1..n -> NamedBlocks] : n \in 0..MaxNamedBlocks }

\* Execute(block.Name, block.Input).String() for the tools of the subagent
SubExecute(block) ==
    IF block.Name = "Done" THEN executeDone(block.Input) ELSE block.Input.summary

\* a slip in RunSubagent: only the first block is looked at
FirstTextOfHead(content) ==
    IF content # <<>> /\ Head(content).Type = "text"
    THEN Head(content).Input.summary ELSE <<>>

\* the text of the first text block of content, "" if it has none
RECURSIVE FirstText(_)
FirstText(content) ==
    IF content = <<>> THEN <<>>
    ELSE IF Head(content).Type = "text" THEN Head(content).Input.summary
    ELSE FirstText(Tail(content))

\* a slip in the list of names: the shell is on it
subagentToolNamesWithShell ==
    {"ReadFile", "Ls", "Grep", "WriteFile", "ReplaceText", "Bash"}

\* the tools RunSubagent offers: those of subagentToolNames that are
\* registered, and DoneTool
subagentToolNames == {"ReadFile", "Ls", "Grep", "WriteFile", "ReplaceText"}

SubagentTools == {t \in AllTools : t \in subagentToolNames} \cup {"Done"}

\* the errors of RunSubagent
TimeoutError == "subagent timeout"

ExhaustedError == "max turns exceeded"

APICallError == "api call"

\* a slip in the for loop: one turn too many
TurnsLeftInclusive(t) == t <= maxTurns

\* turn < maxTurns, the condition of the for loop
TurnsLeft(t) == t < maxTurns

\* the messages the model of a run can send: any content, or only a
\* message with one call that reads a file
SubContentsFor(contents) ==
    CASE contents = "loop" ->
            { << SubBlock("tool_use", "ReadFile", SubInput(TRUE, <<"d", "a", "t", "a">>)) >> }
      [] contents = "named" -> NamedContents
      [] OTHER -> SubContents

SubState(pc, t, ms, results, blocks, ret, err, calls, executed) ==
    [pc |-> pc, turn |-> t, messages |-> ms, toolResults |-> results,
     blocks |-> blocks, ret |-> ret, err |-> err, calls |-> calls,
     executed |-> executed,
     stop |-> "", tools |-> {}, expired |-> FALSE,
     callCap |-> 0, contents |-> "all"]

\* no subagent runs
SubIdle == sub = SubState("none", 0, <<>>, <<>>, <<>>, <<>>, "nil", 0, <<>>)

\* the state in which RunSubagent is entered: messages holds the prompt, the
\* deadline is set; the model answers at most callCap requests
SubEntered(callCap, contents) ==
    [SubState("call", 0, <<"prompt">>, <<>>, <<>>, <<>>, "nil", 0, <<>>) EXCEPT
        !.callCap = callCap, !.contents = contents]

SubInit == sub = SubEntered(MaxSubCalls, "all")

SubReturn(ret, err) == [sub EXCEPT !.pc = "returned", !.ret = ret, !.err = err]

\* a slip at the head of the loop: the deadline is not looked at
SubCtxDoneIgnored(state) == FALSE

\* case <-ctx.Done() of the select at the head of the loop is ready
SubCtxDone(state) == state.expired

\* the deadline of ctx passes while RunSubagent runs
SubExpire ==
    /\ sub.pc \in {"call", "inflight", "tools"}
    /\ ~sub.expired
    /\ sub' = [sub EXCEPT !.expired = TRUE]
    /\ UNCHANGED <<streamVars, agentVars, toolVars, extVars>>

\* the head of the for loop: the turn limit, the deadline, and the request
SubLoopHead ==
    /\ sub.pc = "call"
    /\ IF ~TurnsLeft(sub.turn)
       THEN sub' = SubReturn(<<>>, ExhaustedError)
       ELSE IF SubCtxDone(sub)
       THEN sub' = SubReturn(<<>>, TimeoutError)
       ELSE /\ sub.calls < sub.callCap
            /\ sub' = [sub EXCEPT !.pc = "inflight", !.calls = @ + 1,
                                  !.tools = SubagentTools]
    /\ UNCHANGED <<streamVars, agentVars, toolVars, extVars>>

\* client.Messages.Create returns: an error, or a message, which is appended
\* and either ends the run or has its tools executed
SubCreate ==
    /\ sub.pc = "inflight"
    /\ \/ sub' = SubReturn(<<>>, APICallError)
       \/ \E content \in SubContentsFor(sub.contents) :
          \E stop \in {"tool_use", "end_turn"} :
            LET ms == Append(sub.messages, [Role |-> "assistant",
                                            Content |-> content])
            IN IF stop # "tool_use"
               THEN sub' = [SubReturn(FirstText(content), "nil") EXCEPT
                                !.messages = ms, !.stop = stop]
               ELSE sub' = [sub EXCEPT !.pc = "tools", !.messages = ms,
                                !.stop = stop, !.blocks = content,
                                !.toolResults = <<>>]
    /\ UNCHANGED <<streamVars, agentVars, toolVars, extVars>>

\* a slip in RunSubagent: the done signal is recorded like any other result
SubRunBlockIgnoresDone(block) ==
    [sub EXCEPT !.blocks = Tail(@),
                !.executed = Append(@, block),
                !.toolResults = Append(@, [Type |-> "tool_result",
                                           Content |-> SubExecute(block)])]

\* one tool_use block of the message: execute it, return on the done signal,
\* record the result otherwise
SubRunBlock(block) ==
    LET result == SubExecute(block) IN
    IF HasPrefix(result, DoneSignalPrefix)
    THEN [SubReturn(TrimPrefix(result, DoneSignalPrefix), "nil") EXCEPT
            !.blocks = Tail(@), !.executed = Append(@, block)]
    ELSE [sub EXCEPT !.blocks = Tail(@),
                     !.executed = Append(@, block),
                     !.toolResults = Append(@, [Type |-> "tool_result",
                                                Content |-> result])]

\* the loop over msg.Content, one block at a time
SubBlockStep ==
    /\ sub.pc = "tools"
    /\ sub.blocks # <<>>
    /\ IF Head(sub.blocks).Type # "tool_use"
       THEN sub' = [sub EXCEPT !.blocks = Tail(@)]
       ELSE sub' = SubRunBlock(Head(sub.blocks))
    /\ UNCHANGED <<streamVars, agentVars, toolVars, extVars>>

\* after the loop over msg.Content: the results go to messages, next turn
SubResults ==
    /\ sub.pc = "tools"
    /\ sub.blocks = <<>>
    /\ sub' = [sub EXCEPT !.pc = "call", !.turn = @ + 1,
                          !.messages = Append(@, [Role |-> "user",
                                                  Content |-> sub.toolResults])]
    /\ UNCHANGED <<streamVars, agentVars, toolVars, extVars>>

(***************************************************************************)
(* The Task tool: the parent's executeTools is at a Task block, task()      *)
(* checks its input and runs RunSubagent, and its result is recorded.       *)
(***************************************************************************)
\* the inputs of task() and whether SetSubagentConfig was called
TaskInputs ==
    { [valid |-> v, prompt |-> q, description |-> d, configured |-> c] :
        v \in BOOLEAN, q \in {"", "find"}, d \in {"", "look"}, c \in BOOLEAN }

\* the error task() reports before it runs a subagent, "" if none
taskCheck(in) ==
    IF ~in.valid THEN "invalid input"
    ELSE IF in.prompt = "" THEN "prompt required"
    ELSE IF in.description = "" THEN "description required"
    ELSE IF ~in.configured THEN "subagent not configured"
    ELSE ""

\* a slip in task(): the error of the subagent is dropped
taskOutputSilent(ret, err) == ret

\* the text of task()'s result for what RunSubagent returned
taskOutput(ret, err) == IF err # "nil" THEN Error(<<err>>) ELSE ret

\* the runs of RunSubagent the model follows: short ones with any content,
\* and ones that can use up their turns
SubScripts ==
    { [callCap |-> MaxSubCalls, contents |-> "all"],
      [callCap |-> maxTurns + 1, contents |-> "loop"] }

\* executeTools records the result of the block it has run
Recorded(content) ==
    Append(toolResults, [Type |-> "tool_result",
                         ToolUseID |-> BlockID(Len(toolResults) + 1),
                         Content |-> content])

\* the parent's executeTools is about to run its one Task block
TaskPending ==
    /\ fs = [p \in Paths |-> "absent"]
    /\ permissionsMode = "prompt"
    /\ todo = 1 /\ toolResults = <<>> /\ nbatches = 1
    /\ last = Call("", "", ToolInput(TRUE, "", <<>>), "", "prompt", fs,
                   FALSE, NoOutcome(fs, "prompt"))
    /\ turn = "infer" /\ messages = <<>> /\ planMode = FALSE
    /\ turnsSinceTodoWrite = 0 /\ pendingTodos = FALSE
    /\ toolSet = AllTools /\ turnErr = NoErr /\ nresp = 0 /\ ninputs = 0
    /\ respCap = 0 /\ blockCap = 0

\* task() up to the call of RunSubagent: a bad input or a missing
\* configuration gives an error result at once
TaskStart ==
    /\ todo = 1
    /\ sub.pc = "none"
    /\ \E in \in TaskInputs :
        IF taskCheck(in) # ""
        THEN /\ toolResults' = Recorded(Error(<<taskCheck(in)>>))
             /\ todo' = 0
             /\ UNCHANGED sub
        ELSE /\ \E script \in SubScripts :
                    sub' = SubEntered(script.callCap, script.contents)
             /\ UNCHANGED <<toolResults, todo>>
    /\ UNCHANGED <<permissionsMode, fs, last, nbatches>>
    /\ UNCHANGED <<streamVars, agentVars, extVars>>

\* RunSubagent has returned: task() makes its result and executeTools
\* records it
TaskEnd ==
    /\ todo = 1
    /\ sub.pc = "returned"
    /\ toolResults' = Recorded(taskOutput(sub.ret, sub.err))
    /\ todo' = 0
    /\ UNCHANGED <<permissionsMode, fs, last, nbatches>>
    /\ UNCHANGED <<streamVars, agentVars, sub, extVars>>

(***************************************************************************)
(* The skill tool restriction: allowedTools, SetAllowedTools,              *)
(* ClearAllowedTools, invokeSkill and the check at the head of Execute.    *)
(* allowedTools is a pointer: <<>> is nil, all tools allowed.              *)
(***************************************************************************)
\* the tools of the MCP clients
MCPTools == {"mcp_x"}

\* the names a tool_use block may carry: registered, delegated, unknown
ExecuteNames == {"ReadFile", "WriteFile", "Bash", "InvokeSkill", "mcp_x", "nope"}

\* what SkillLoader returns for a skill name: the skill (a pointer), or nothing
SkillLoader(name) ==
    CASE name = "reader" -> <<[Name |-> "reader", AllowedTools |-> <<"ReadFile">>]>>
      [] name = "free"   -> <<[Name |-> "free", AllowedTools |-> <<>>]>>
      [] name = "remote" -> <<[Name |-> "remote",
                               AllowedTools |-> <<"ReadFile", "Bash", "mcp_x">>]>>
      [] OTHER -> <<>>

\* the skill names the model asks for
SkillNames == {"reader", "free", "remote", "missing", ""}

\* the elements of a list
Range(list) == { list[i] : i \in DOMAIN list }

\* a slip in SetAllowedTools: InvokeSkill is allowed only if the skill lists it
SetAllowedToolsExact(tools) ==
    IF Len(tools) = 0 THEN <<>> ELSE <<Range(tools)>>

\* SetAllowedTools(tools): allowedTools afterwards
SetAllowedTools(tools) ==
    IF Len(tools) = 0 THEN <<>> ELSE <<Range(tools) \cup {"InvokeSkill"}>>

\* ClearAllowedTools(): allowedTools afterwards
ClearAllowedToolsValue == <<>>

\* the text Execute returns for a tool the skill does not allow
NotAllowed(name) == <<"error: tool '", name, "' not allowed in current skill">>

\* what an Execute leaves: allowedTools, the text of the result, and which
\* function was invoked: "none", "local" (the registry) or "mcp"
SkillOutcome(allowed, output, ran) == [allowed |-> allowed, output |-> output, ran |-> ran]

\* invokeSkill(input) with input.name = name
invokeSkill(allowed, name) ==
    IF name = "" THEN SkillOutcome(allowed, Error(<<"name required">>), "local")
    ELSE IF SkillLoader(name) = <<>>
    THEN SkillOutcome(allowed, Error(<<"skill not found: ", name>>), "local")
    ELSE LET sk == SkillLoader(name)[1]
         IN  SkillOutcome(IF Len(sk.AllowedTools) > 0
                          THEN SetAllowedTools(sk.AllowedTools) ELSE allowed,
                          <<"skill", sk.Name>>, "local")

\* tools.Execute(name, input) under allowedTools = allowed; skillName is the
\* name in the input of an InvokeSkill call
ExecuteUnder(allowed, name, skillName) ==
    IF allowed # <<>> /\ name \notin allowed[1]
    THEN SkillOutcome(allowed, NotAllowed(name), "none")
    ELSE IF name = "InvokeSkill" THEN invokeSkill(allowed, skillName)
    ELSE IF name \in AllTools THEN SkillOutcome(allowed, <<"ran", name>>, "local")
    ELSE IF name \in MCPTools THEN SkillOutcome(allowed, <<"ran", name>>, "mcp")
    ELSE SkillOutcome(allowed, <<"unknown tool">>, "none")

\* skill: allowedTools, the turn in which it was last assigned, and the
\* latest Execute: its name, result, the function invoked, allowedTools before
SkillState(allowed, since, name, output, ran, before) ==
    [allowed |-> allowed, since |-> since, name |-> name, output |-> output,
     ran |-> ran, before |-> before]

SkillIdle == skill = SkillState(<<>>, 0, "", <<>>, "none", <<>>)

\* executeTools hands the next tool_use block of the message to Execute
SkillExecute ==
    /\ todo > 0
    /\ todo' = todo - 1
    /\ \E name \in ExecuteNames :
       \E skillName \in (IF name = "InvokeSkill" THEN SkillNames ELSE {""}) :
        LET out == ExecuteUnder(skill.allowed, name, skillName)
        IN  skill' = SkillState(out.allowed,
                                IF out.allowed # skill.allowed THEN nbatches ELSE skill.since,
                                name, out.output, out.ran, skill.allowed)
    /\ UNCHANGED <<permissionsMode, fs, toolResults, last, nbatches>>
    /\ UNCHANGED <<streamVars, agentVars, sub, rep, recv, body, sess>>

\* ClearAllowedTools() is called between two tool calls
ClearAllowedTools ==
    /\ skill.allowed # <<>>
    /\ skill' = [skill EXCEPT !.allowed = ClearAllowedToolsValue, !.since = nbatches]
    /\ UNCHANGED <<rep, recv, body, sess>>
    /\ UNCHANGED <<streamVars, agentVars, toolVars, sub>>

(***************************************************************************)
(* replaceText with its line scope.  A text is the sequence of its         *)
(* characters; a missing file and an omitted start_line or end_line are    *)
(* empty pointers.                                                         *)
(***************************************************************************)
MaxFileLen == 3
MaxOldLen == 2
MaxLineArg == 3

\* the texts of at most n characters over the alphabet chars
TextsUpTo(chars, n) == UNION { [1..k -> chars] : k \in 0..n }

\* strings.Index(text, pat): the 0-based position of the first occurrence, or -1
Index(text, pat) ==
    LET at == { i \in 0..(Len(text) - Len(pat)) : SubSeq(text, i + 1, i + Len(pat)) = pat }
    IN  IF at = {} THEN -1 ELSE CHOOSE i \in at : \A j \in at : i <= j

RECURSIVE stringsCount(_, _)
\* strings.Count(text, pat): the non-overlapping occurrences of pat, and one
\* more than the number of characters when pat is empty
stringsCount(text, pat) ==
    IF pat = <<>> THEN Len(text) + 1
    ELSE LET i == Index(text, pat)
         IN  IF i = -1 THEN 0
             ELSE 1 + stringsCount(SubSeq(text, i + Len(pat) + 1, Len(text)), pat)

\* strings.Replace(text, old, new, 1); an empty old matches at the beginning
Replace(text, old, new) ==
    LET i == Index(text, old)
    IN  IF i = -1 THEN text
        ELSE SubSeq(text, 1, i) \o new \o SubSeq(text, i + Len(old) + 1, Len(text))

RECURSIVE Split(_)
\* strings.Split(text, "\n")
Split(text) ==
    LET i == Index(text, <<"\n">>)
    IN  IF i = -1 THEN <<text>>
        ELSE <<SubSeq(text, 1, i)>> \o Split(SubSeq(text, i + 2, Len(text)))

RECURSIVE Join(_)
\* strings.Join(lines, "\n")
Join(lines) ==
    IF lines = <<>> THEN <<>>
    ELSE IF Len(lines) = 1 THEN lines[1]
    ELSE lines[1] \o <<"\n">> \o Join(Tail(lines))

RECURSIVE findMatchLinesFrom(_, _, _, _)
\* the loop of findMatchLines from position idx: joined[idx:] panics when idx
\* is beyond the end of joined
findMatchLinesFrom(joined, pattern, baseLineNum, idx) ==
    IF idx > Len(joined) THEN [panic |-> TRUE, result |-> <<>>]
    ELSE LET pos == Index(SubSeq(joined, idx + 1, Len(joined)), pattern)
         IN  IF pos = -1 THEN [panic |-> FALSE, result |-> <<>>]
             ELSE LET absPos == idx + pos
                      lineNum == baseLineNum + stringsCount(SubSeq(joined, 1, absPos), <<"\n">>)
                      rest == findMatchLinesFrom(joined, pattern, baseLineNum, absPos + 1)
                  IN  [panic |-> rest.panic, result |-> <<lineNum>> \o rest.result]

findMatchLines(lines, pattern, baseLineNum) ==
    findMatchLinesFrom(Join(lines), pattern, baseLineNum, 0)

\* the input of ReplaceText
ReplaceInput(old, new, startLine, endLine) ==
    [old_text |-> old, new_text |-> new, start_line |-> startLine, end_line |-> endLine]

\* what a call of replaceText leaves: the file, permissionsMode, the text
\* of the result, and whether the call ended in a run-time panic instead
ReplaceOutcome(file, pmode, output, panic) ==
    [file |-> file, pmode |-> pmode, output |-> output, panic |-> panic]

\* the search scope of replaceText on lines: startIdx, endIdx, or the error
scopeOf(lines, in) ==
    LET n == Len(lines)
        startBad == in.start_line # <<>> /\ (in.start_line[1] < 1 \/ in.start_line[1] > n)
        endBad == in.end_line # <<>> /\ (in.end_line[1] < 1 \/ in.end_line[1] > n)
        startIdx == IF in.start_line # <<>> THEN in.start_line[1] - 1 ELSE 0
        endIdx == IF in.end_line # <<>> THEN in.end_line[1] ELSE n
    IN  IF startBad THEN [err |-> <<"start_line out of range">>, startIdx |-> 0, endIdx |-> 0]
        ELSE IF endBad THEN [err |-> <<"end_line out of range">>, startIdx |-> 0, endIdx |-> 0]
        ELSE IF startIdx >= endIdx
        THEN [err |-> <<"start_line must be less than end_line">>, startIdx |-> 0, endIdx |-> 0]
        ELSE [err |-> <<>>, startIdx |-> startIdx, endIdx |-> endIdx]

\* replaceText(input) on the file, under permissionsMode = pmode, the user
\* typing reply if asked
replaceTextScoped(file, in, pmode, reply) ==
    IF file = <<>>
    THEN ReplaceOutcome(file, pmode, Error(<<"reading">>), FALSE)
    ELSE
    LET content == file[1]
        lines == Split(content)
        scope == scopeOf(lines, in)
    IN  IF scope.err # <<>> THEN ReplaceOutcome(file, pmode, Error(scope.err), FALSE)
        ELSE
        LET scopedLines == SubSeq(lines, scope.startIdx + 1, scope.endIdx)
            scopedContent == Join(scopedLines)
            count == stringsCount(scopedContent, in.old_text)
        IN  IF count = 0
            THEN IF in.start_line # <<>> \/ in.end_line # <<>>
                 THEN ReplaceOutcome(file, pmode,
                        Error(<<"old_text not found in lines", scope.startIdx + 1, scope.endIdx>>),
                        FALSE)
                 ELSE ReplaceOutcome(file, pmode, Error(<<"old_text not found">>), FALSE)
            ELSE IF count > 1
            THEN LET matchLines == findMatchLines(scopedLines, in.old_text, scope.startIdx + 1)
                 IN  IF matchLines.panic
                     THEN ReplaceOutcome(file, pmode, <<>>, TRUE)
                     ELSE ReplaceOutcome(file, pmode,
                            Error(<<"old_text found", count, "times at lines",
                                    matchLines.result>>), FALSE)
            ELSE
            LET updatedScoped == Replace(scopedContent, in.old_text, in.new_text)
                updated == Join(SubSeq(lines, 1, scope.startIdx)
                                \o Split(updatedScoped)
                                \o SubSeq(lines, scope.endIdx + 1, Len(lines)))
                perm == RequestPermissionWithDiff(pmode, reply)
                m == AfterGate(pmode, perm)
            IN  IF ~perm.allowed
                THEN ReplaceOutcome(file, m, Error(<<"permission denied: ", perm.reason>>), FALSE)
                ELSE ReplaceOutcome(<<updated>>, m, <<"replaced">>, FALSE)

\* the files and inputs a call is made with
ReplaceFiles == {<<>>} \cup { <<t>> : t \in TextsUpTo({"a", "\n"}, MaxFileLen) }

ReplaceLineArgs == {<<>>} \cup { <<n>> : n \in 0..MaxLineArg }

ReplaceInputs ==
    { ReplaceInput(old, new, s, e) :
        old \in TextsUpTo({"a", "\n"}, MaxOldLen), new \in {<<>>, <<"b">>},
        s \in ReplaceLineArgs, e \in ReplaceLineArgs }

\* rep: where the call is, the file before and after it, its input and what
\* it returned
ReplaceState(pc, file, in, before, output, panic) ==
    [pc |-> pc, file |-> file, in |-> in, before |-> before, output |-> output,
     panic |-> panic]

ReplaceIdle ==
    rep = ReplaceState("idle", <<>>, ReplaceInput(<<>>, <<>>, <<>>, <<>>), <<>>, <<>>, FALSE)

\* no consumer has received from the channel, and the body is arbitrary
EventsIdle == recv = 0 /\ body = "any"

ExtIdle == ReplaceIdle /\ EventsIdle /\ SkillIdle /\ SessNew

\* the model hands a ReplaceText block to Execute
ReplacePending ==
    \E file \in ReplaceFiles : \E in \in ReplaceInputs :
        rep = ReplaceState("call", file, in, file, <<>>, FALSE)

\* Execute("ReplaceText", input)
ReplaceCall ==
    /\ rep.pc = "call"
    /\ \E reply \in {"y\n", "n\n", "a\n"} :
        LET out == replaceTextScoped(rep.file, rep.in, permissionsMode, reply)
        IN  /\ rep' = ReplaceState(IF out.panic THEN "panic" ELSE "done", out.file, rep.in,
                                   rep.file, out.output, out.panic)
            /\ permissionsMode' = out.pmode
    /\ UNCHANGED <<fs, todo, toolResults, last, nbatches>>
    /\ UNCHANGED <<streamVars, agentVars, sub, recv, body, skill, sess>>

(***************************************************************************)
(* Specifications.                                                         *)
(***************************************************************************)
\* one FinalMessage call on a fresh stream, nothing running beside it
FramesInit == StreamInit(MaxLines) /\ AgentInit /\ ToolsIdle /\ SubIdle /\ ExtIdle

FramesNext == FinalMessageDo \/ FinalScan \/ FinalDispatch

SpecFrames == FramesInit /\ [][FramesNext]_vars

\* one stream consumed by FinalMessage or by Events, with Abort() beside it
StreamSpecInit == StreamInit(MaxAbortLines) /\ AgentInit /\ ToolsIdle /\ SubIdle /\ ExtIdle

StreamNext ==
    \/ FinalMessageDo \/ FinalScan \/ FinalDispatch
    \/ EventsDo \/ EventsScan \/ EventsDispatch
    \/ AbortEmit \/ AbortCancel

SpecStream == StreamSpecInit /\ [][StreamNext]_vars

\* a stream consumed through Events() whose body holds more events than the
\* channel can buffer, a consumer that receives as long as it likes, and
\* Abort() beside them; the goroutine and the cancellation run on
EventsFullInit ==
    /\ StreamInit(EventBuffer + 1) /\ AgentInit /\ ToolsIdle /\ SubIdle /\ ReplaceIdle
    /\ SkillIdle /\ SessNew /\ recv = 0 /\ body = "deltas"

EventsFullNext ==
    \/ EventsDo \/ EventsScan \/ EventsDispatch \/ EventsReceive
    \/ AbortEmit \/ AbortCancel

SpecEventsFull ==
    /\ EventsFullInit /\ [][EventsFullNext]_vars
    /\ WF_vars(EventsScan) /\ WF_vars(EventsDispatch) /\ WF_vars(AbortCancel)

\* a session of the conversation loop
Init == StreamInit(0) /\ AgentInit /\ ToolsIdle /\ SubIdle /\ ExtIdle

Next == Input \/ InferenceStep \/ Save

Spec == Init /\ [][Next]_vars

\* a session whose turns take several requests, of single-block messages
TurnInit == StreamInit(0) /\ AgentInitWith(MaxTurnResponses, MaxTurnBlocks) /\ ToolsIdle /\ SubIdle /\ ExtIdle

SpecTurn == TurnInit /\ [][Next]_vars

\* the tools of the messages of a session, run one by one
ToolsSpecInit == StreamInit(0) /\ ToolsInit /\ SubIdle /\ ExtIdle

ToolsNext == NewBatch \/ ExecuteBlock

SpecTools == ToolsSpecInit /\ [][ToolsNext]_vars

\* the same batches when the model names tools it was not offered
ToolsNamedNext == NewBatch \/ ExecuteNamedBlock

SpecToolsNamed == ToolsSpecInit /\ [][ToolsNamedNext]_vars

\* the turn after PlainTurns plain turns
RemindersInit == StreamInit(0) /\ AgentAfterPlainTurns /\ ToolsIdle /\ SubIdle /\ ExtIdle

SpecReminders == RemindersInit /\ [][Next]_vars

\* a run of RunSubagent
SubSpecInit == StreamInit(0) /\ AgentInit /\ ToolsIdle /\ SubInit /\ ExtIdle

SubNext == SubExpire \/ SubLoopHead \/ SubCreate \/ SubBlockStep \/ SubResults

SpecSubagent == SubSpecInit /\ [][SubNext]_vars

\* a run of RunSubagent whose model keeps asking for a file to be read and
\* would answer one request more than maxTurns
SubLoopInit ==
    StreamInit(0) /\ AgentInit /\ ToolsIdle /\ sub = SubEntered(maxTurns + 1, "loop") /\ ExtIdle

SpecSubLoop == SubLoopInit /\ [][SubNext]_vars

\* a run of RunSubagent whose model names tools whether offered or not
SubNamedInit ==
    StreamInit(0) /\ AgentInit /\ ToolsIdle /\ sub = SubEntered(MaxSubCalls, "named") /\ ExtIdle

SpecSubNamed == SubNamedInit /\ [][SubNext]_vars

\* a Task block of the parent, from task() to the recorded result
TaskSpecInit == StreamInit(0) /\ TaskPending /\ SubIdle /\ ExtIdle

TaskNext == TaskStart \/ SubNext \/ TaskEnd

SpecTask == TaskSpecInit /\ [][TaskNext]_vars

\* one ReplaceText call on a file, in prompt mode or in accept-all mode
ReplaceSpecInit ==
    /\ StreamInit(0) /\ AgentInit /\ SubIdle
    /\ fs = [p \in Paths |-> "absent"]
    /\ permissionsMode \in {"prompt", "accept_all"}
    /\ todo = 0 /\ toolResults = <<>> /\ nbatches = 0
    /\ last = Call("", "", ToolInput(TRUE, "", <<>>), "", "prompt", fs,
                   FALSE, NoOutcome(fs, "prompt"))
    /\ ReplacePending /\ EventsIdle /\ SkillIdle /\ SessNew

ReplaceNext == ReplaceCall

SpecReplace == ReplaceSpecInit /\ [][ReplaceNext]_vars

\* main up to the input loop, the agent waiting for a line of input
SaveSpecInit ==
    /\ StreamInit(0) /\ SubIdle /\ ReplaceIdle /\ EventsIdle /\ SkillIdle
    /\ AgentInit
    /\ fs = [p \in Paths |-> "absent"]
    /\ todo = 0 /\ toolResults = <<>> /\ nbatches = 0
    /\ \E cfg \in SessionModes :
        /\ permissionsMode = ToolsInitMode(cfg.pmode)
        /\ sess = SessState(NewAgentMode(cfg.pmode), <<>>, permissionsMode)
        /\ last = Call("Init", cfg.session, ToolInput(TRUE, "", <<>>), "", cfg.pmode,
                       fs, planMode, NoOutcome(fs, permissionsMode))

\* RunInferenceTurn receives a message with tool_use blocks
TurnBatch == turn = "infer" /\ NewBatch

\* RunInferenceTurn receives a message without tool_use blocks and returns
TurnReturns ==
    /\ turn = "infer" /\ todo = 0
    /\ turn' = "save"
    /\ UNCHANGED <<messages, planMode, turnsSinceTodoWrite, pendingTodos, toolSet,
                   turnErr, nresp, respCap, blockCap, ninputs>>
    /\ UNCHANGED <<streamVars, toolVars, sub, extVars>>

SaveNext == Input \/ TurnBatch \/ ExecuteBlock \/ TurnReturns \/ Save

SpecSave == SaveSpecInit /\ [][SaveNext]_vars

\* the turns of a session in which skills are invoked
SkillsNext == NewBatch \/ SkillExecute \/ ClearAllowedTools

SpecSkills == Init /\ [][SkillsNext]_vars


(***************************************************************************)
(* What a response body says, read off the lines alone.                    *)
(***************************************************************************)
\* a line the read loop is to skip: no "data: " prefix, or an undecodable payload
IsSkipped(l) == ~l.prefix \/ ~l.json

\* the data frames among the lines w
Frames(w) == SelectSeq(w, LAMBDA l : ~IsSkipped(l))

\* For the blocks that the frames w open and close, in the order of their
\* content_block_start frames: the block the start frame carried and the
\* concatenation of the text, thinking and input-JSON fragments that came
\* between its start and its stop.  cur is the block being received.
RECURSIVE Received(_, _, _)
Received(w, cur, out) ==
    IF w = <<>> THEN out
    ELSE LET ev == Head(w).ev
             rest == Tail(w)
         IN CASE ev.Type = "content_block_start" ->
                    Received(rest,
                        IF Len(ev.ContentBlock) = 0 THEN <<>>
                        ELSE <<[start |-> ev.ContentBlock[1], text |-> "",
                                thinking |-> "", json |-> ""]>>,
                        out)
              [] ev.Type = "content_block_delta" /\ Len(cur) = 1 ->
                    Received(rest,
                        <<[cur[1] EXCEPT
                            !.text = IF ev.Delta.Type = "text_delta"
                                     THEN @ \o ev.Delta.Text ELSE @,
                            !.thinking = IF ev.Delta.Type = "thinking_delta"
                                         THEN @ \o ev.Delta.Thinking ELSE @,
                            !.json = IF ev.Delta.Type = "input_json_delta"
                                     THEN @ \o ev.Delta.PartialJSON ELSE @]>>,
                        out)
              [] ev.Type = "content_block_stop" /\ Len(cur) = 1 ->
                    Received(rest, <<>>, Append(out, cur[1]))
              [] OTHER -> Received(rest, cur, out)

ReceivedBlocks == Received(Frames(wire), <<>>, <<>>)

\* The increments the frames w carry, in wire order, as <<event, fragment>>:
\* the deltas of a known kind that arrive while a block is being received,
\* and the reasoning text of message_delta frames.
RECURSIVE Increments(_, _, _)
Increments(w, open, out) ==
    IF w = <<>> THEN out
    ELSE LET ev == Head(w).ev
             rest == Tail(w)
         IN CASE ev.Type = "content_block_start" ->
                    Increments(rest, Len(ev.ContentBlock) = 1, out)
              [] ev.Type = "content_block_stop" -> Increments(rest, FALSE, out)
              [] ev.Type = "content_block_delta" /\ open
                 /\ ev.Delta.Type = "text_delta" ->
                    Increments(rest, open, Append(out, <<"text", ev.Delta.Text>>))
              [] ev.Type = "content_block_delta" /\ open
                 /\ ev.Delta.Type = "input_json_delta" ->
                    Increments(rest, open,
                               Append(out, <<"inputJson", ev.Delta.PartialJSON>>))
              [] ev.Type = "content_block_delta" /\ open
                 /\ ev.Delta.Type = "thinking_delta" ->
                    Increments(rest, open, Append(out, <<"thinking", ev.Delta.Thinking>>))
              [] ev.Type = "message_delta" /\ ev.Delta.ReasoningContent # "" ->
                    Increments(rest, open,
                               Append(out, <<"thinking", ev.Delta.ReasoningContent>>))
              [] OTHER -> Increments(rest, open, out)

\* the events of the given kinds, in the order the handlers saw them
EventsOf(kinds) == SelectSeq(events, LAMBDA e : e.kind \in kinds)

Count(kind) == Len(EventsOf({kind}))

Content == message[1].Content

(***************************************************************************)
(* C2.  The claim as given: every closed block's text, thinking and input  *)
(* are exactly the concatenation of the fragments received for it.         *)
(***************************************************************************)
C2_FragmentsOnly ==
    Len(message) = 1 =>
        /\ Len(Content) = Len(ReceivedBlocks)
        /\ \A i \in DOMAIN Content :
            /\ Content[i].Text = ReceivedBlocks[i].text
            /\ Content[i].Thinking = ReceivedBlocks[i].thinking
            /\ Content[i].Input = ReceivedBlocks[i].json

\* C2 as amended: a closed block's text and thinking are those of its
\* content_block_start frame followed by the in-order concatenation of the
\* text_delta and thinking_delta fragments received for it; the input of a
\* tool_use block is the concatenation of its input_json_delta fragments when
\* that is not empty, and otherwise, as for a block of another type, the input
\* of the start frame.
C2_StartThenFragments ==
    Len(message) = 1 =>
        /\ Len(Content) = Len(ReceivedBlocks)
        /\ \A i \in DOMAIN Content :
            LET r == ReceivedBlocks[i] IN
            /\ Content[i].Text = r.start.Text \o r.text
            /\ Content[i].Thinking = r.start.Thinking \o r.thinking
            /\ Content[i].Input =
                  IF r.start.Type = "tool_use" /\ r.json # "" THEN r.json
                  ELSE r.start.Input

\* a closed block that received two text fragments
C2_Witness ==
    /\ Len(message) = 1
    /\ \E i \in DOMAIN Content :
        /\ ReceivedBlocks[i].text = "ab"
        /\ Content[i].Text = ReceivedBlocks[i].start.Text \o "ab"

(***************************************************************************)
(* C3.  At most one block is open at any point of a stream; the frame that *)
(* closes a block leaves none open; and no step changes a block that is    *)
(* already in the message's Content.                                       *)
(***************************************************************************)
C3_OneOpenClosedFrozen ==
    /\ [](Len(currentBlock) <= 1)
    /\ [][ /\ (Len(message) = 1 /\ Len(message') = 1) =>
                /\ Len(message'[1].Content) >= Len(Content)
                /\ SubSeq(message'[1].Content, 1, Len(Content)) = Content
           /\ (spc = "dispatch" /\ spc' = "scan" /\ ~IsSkipped(line)
                 /\ line.ev.Type = "content_block_stop") =>
                Len(currentBlock') = 0
         ]_vars

\* a block is closed and a later block is open and has received a fragment
C3_Witness ==
    /\ Len(message) = 1 /\ Len(Content) = 1
    /\ Len(currentBlock) = 1
    /\ currentBlock[1].Text = "a"

(***************************************************************************)
(* C4.  The text, thinking and inputJson events are emitted in the order   *)
(* of their frames on the wire, and the contentBlock events are the blocks *)
(* of the message's Content, in the order in which they were opened.       *)
(***************************************************************************)
C4_EventsInWireOrder ==
    Len(message) = 1 =>
        /\ LET inc == EventsOf({"text", "thinking", "inputJson"}) IN
           /\ Len(inc) = Len(Increments(Frames(wire), FALSE, <<>>))
           /\ \A i \in DOMAIN inc :
                <<inc[i].kind, inc[i].data>> = Increments(Frames(wire), FALSE, <<>>)[i]
        /\ LET blk == EventsOf({"contentBlock"}) IN
           /\ Len(blk) = Len(Content)
           /\ Len(blk) = Len(ReceivedBlocks)
           /\ \A i \in DOMAIN blk :
                /\ blk[i].data = Content[i]
                /\ blk[i].data.Type = ReceivedBlocks[i].start.Type
                /\ blk[i].data.ID = ReceivedBlocks[i].start.ID

\* two increments of one block, then its block-complete event
C4_Witness ==
    /\ Len(message) = 1
    /\ Len(EventsOf({"text", "thinking", "inputJson"})) = 2
    /\ EventsOf({"text", "thinking", "inputJson"})[1].data
         # EventsOf({"text", "thinking", "inputJson"})[2].data
    /\ Len(EventsOf({"contentBlock"})) = 1

(***************************************************************************)
(* C5.  The claim: the completion signal is resolved exactly once on every *)
(* terminal outcome of a stream, consumed by FinalMessage or by Events,    *)
(* and never a second time.                                                *)
(***************************************************************************)
C5_DoneExactlyOnce ==
    /\ Len(done) <= 1
    /\ spc = "returned" => Len(done) = 1

(***************************************************************************)
(* C6.  The claim, for an Abort() that has returned while FinalMessage was *)
(* still reading and no message_stop frame had been processed: the abort   *)
(* event was emitted, no message event is emitted after Abort() returned,  *)
(* and FinalMessage, once it has returned, returned the cancellation       *)
(* error.                                                                  *)
(***************************************************************************)
C6_AbortSuppressesMessage ==
    ( /\ apc = "done" /\ mode = "final"
      /\ abortedWhile.spc \in {"scan", "dispatch"}
      /\ \A i \in 1..abortedWhile.events : events[i].kind # "message" )
    => /\ Count("abort") = 1
       /\ \A i \in DOMAIN events : events[i].kind # "message"
       /\ spc = "returned" => retErr = Canceled

(***************************************************************************)
(* C7.  The claim: a FinalMessage call whose read was ended by the         *)
(* cancellation resolves the completion signal with the cancellation error *)
(* and returns the message accumulated so far, not nil.                    *)
(***************************************************************************)
C7_CancelReturnsPartial ==
    (mode = "final" /\ spc = "returned" /\ Len(response) = 1 /\ retErr = Canceled)
    => /\ done = <<Canceled>>
       /\ Len(retMsg) = 1
       /\ retMsg = message

(***************************************************************************)
(* C8.  When the status of the response is not 2xx, FinalMessage returns   *)
(* an APIError with that status and the raw body, returns no message,      *)
(* emits one error event and no message event, reads no line and issues    *)
(* no second request.                                                      *)
(***************************************************************************)
C8_NonSuccessStatus ==
    (mode = "final" /\ Len(response) = 1 /\ response[1] \notin 200..299)
    => /\ spc = "returned"
       /\ retErr = APIError(response[1], BodyOf(response[1]))
       /\ retMsg = <<>>
       /\ Count("error") = 1
       /\ EventsOf({"error"})[1].data = retErr
       /\ Count("message") = 0
       /\ nlines = 0 /\ wire = <<>>
       /\ requests = 1

\* a 404 response was answered with the APIError for it
C8_Witness ==
    /\ mode = "final" /\ spc = "returned"
    /\ response = <<404>>
    /\ retErr = APIError(404, "not found")

(***************************************************************************)
(* C9.  The loop body on a line without the data prefix, or with a payload *)
(* that does not decode, changes nothing of the accumulated message, the   *)
(* open block, the input buffer, the text, the events or the completion    *)
(* signal, and goes on to the next read.                                   *)
(***************************************************************************)
C9_SkippedLineChangesNothing ==
    [][ (spc = "dispatch" /\ mode = "final" /\ IsSkipped(line)) =>
            /\ message' = message
            /\ currentBlock' = currentBlock
            /\ toolInputJSON' = toolInputJSON
            /\ finalText' = finalText
            /\ events' = events
            /\ done' = done /\ doneOnce' = doneOnce
            /\ spc' = "scan"
      ]_vars

\* a line was skipped while a block was open, and the block was closed after it
C9_Witness ==
    /\ Len(message) = 1 /\ Len(Content) = 1
    /\ Len(wire) = 3
    /\ IsSkipped(wire[2])
    /\ ~IsSkipped(wire[1]) /\ ~IsSkipped(wire[3])

(***************************************************************************)
(* C10.  The claim: the end event is emitted at most once; a FinalMessage  *)
(* call that ends normally has emitted it and has resolved the completion  *)
(* signal with no error; the end event comes after every other event of    *)
(* the stream; and a call that ends with an error has not emitted it.      *)
(***************************************************************************)
C10_EndAfterEveryEvent ==
    /\ Count("end") <= 1
    /\ (mode = "final" /\ spc = "returned" /\ retErr = NoErr) =>
            (Count("end") = 1 /\ done = <<NoErr>>)
    /\ (mode = "final" /\ spc = "returned" /\ retErr # NoErr) => Count("end") = 0
    /\ \A i \in DOMAIN events : events[i].kind = "end" => i = Len(events)

(***************************************************************************)
(* C1.  Whenever RunInferenceTurn issues a model request, every assistant  *)
(* entry of the conversation that holds tool_use blocks is followed at     *)
(* once by a tool-result entry whose results carry, one for one and in the *)
(* same order, the identifiers of those blocks.                            *)
(***************************************************************************)
IDs(blocks) == [i \in DOMAIN ToolUses(blocks) |-> ToolUses(blocks)[i].ID]

Answered(ms) ==
    \A i \in DOMAIN ms :
        (ms[i].Role = "assistant" /\ Len(ToolUses(ms[i].Blocks)) > 0) =>
            /\ i < Len(ms)
            /\ ms[i + 1].Kind = "results"
            /\ [j \in DOMAIN ms[i + 1].Results |-> ms[i + 1].Results[j].ToolUseID]
                  = IDs(ms[i].Blocks)

C1_ToolUsesAnswered == turn = "infer" => Answered(messages)

\* a request is issued after a message with the tool uses a then b was answered
C1_Witness ==
    /\ turn = "infer"
    /\ \E i \in DOMAIN messages :
        /\ messages[i].Role = "assistant"
        /\ IDs(messages[i].Blocks) = <<"a", "b">>
        /\ messages[i + 1].Kind = "results"

(***************************************************************************)
(* C11.  An iteration of RunInferenceTurn that received a message ends the *)
(* turn with no error exactly when the message holds no tool_use block,    *)
(* and then appends the assistant entry alone; otherwise it appends the    *)
(* assistant entry and exactly one tool-result entry after it, with one    *)
(* result per tool_use block, and is back at the head of the loop, where   *)
(* the next model request is issued.                                       *)
(***************************************************************************)
C11_TurnEndsIffNoToolUse ==
    [][ (turn = "infer" /\ nresp' = nresp + 1) =>
            /\ Len(messages') > Len(messages)
            /\ LET asst == messages'[Len(messages) + 1] IN
               /\ asst.Role = "assistant" /\ asst.Kind = "blocks"
               /\ IF ToolUses(asst.Blocks) = <<>>
                  THEN /\ messages' = Append(messages, asst)
                       /\ turn' = "save" /\ turnErr' = NoErr
                  ELSE /\ Len(messages') = Len(messages) + 2
                       /\ SubSeq(messages', 1, Len(messages)) = messages
                       /\ messages'[Len(messages')].Kind = "results"
                       /\ Len(messages'[Len(messages')].Results)
                             = Len(ToolUses(asst.Blocks))
                       /\ turn' = "infer"
      ]_vars

\* a turn went on after a message with a tool use, another ended on a text
C11_Witness ==
    /\ turn = "save" /\ turnErr = NoErr
    /\ Len(messages) = 4
    /\ messages[2].Kind = "blocks" /\ Len(ToolUses(messages[2].Blocks)) = 1
    /\ messages[3].Kind = "results"
    /\ messages[4].Kind = "blocks" /\ ToolUses(messages[4].Blocks) = <<>>

(***************************************************************************)
(* C12.  An iteration of RunInferenceTurn whose request fails ends the     *)
(* turn with the error of the request and leaves the conversation as it    *)
(* was when the request was issued.                                        *)
(***************************************************************************)
C12_FailedRequestKeepsHistory ==
    [][ (turn = "infer" /\ turn' = "save" /\ turnErr' # NoErr) =>
            /\ messages' = messages
            /\ turnErr' \in FetchErrors
            /\ nresp' = nresp
      ]_vars

\* the second request of a turn failed after the first one's tools had run
C12_Witness ==
    /\ turn = "save" /\ turnErr = Canceled
    /\ Len(messages) = 3
    /\ messages[3].Kind = "results"


\* the tools that write, replace, remove, create or run a shell command
MutatingTools == {"WriteFile", "ReplaceText", "Rm", "Mkdir", "Bash"}

\* C13: the tool set offered in plan mode is a strict subset of the full set,
\* holds no write, replace, remove or shell tool, and no call of its
\* source-control tool changes the working tree.
C13_PlanModeSetNonMutating ==
    /\ ReadOnly \subseteq AllTools
    /\ ReadOnly # AllTools
    /\ ReadOnly \cap MutatingTools = {}
    /\ (planMode /\ last.name = "Git") => fs = last.fsBefore

\* C14: a tool call switches plan mode off exactly when it is a call of
\* ExitPlanMode whose result carries the decision Accept, which is the
\* answer 1; Deny, Continue, an invalid answer and the result of any other
\* tool leave the flag as it was, and a request issued after the switch
\* offers the full tool set.
C14_OnlyAcceptLeavesPlanMode ==
    [][ /\ (todo' = todo - 1) =>
            /\ planMode' = IF /\ last'.name = "ExitPlanMode"
                              /\ last'.output = exitPlanModeResultString("Accept")
                           THEN FALSE ELSE planMode
            /\ (last'.name = "ExitPlanMode" /\ last'.input.valid) =>
                    (last'.output = exitPlanModeResultString("Accept")
                        <=> TrimSpace(last'.reply) = "1")
        /\ (nbatches' = nbatches + 1) =>
            /\ planMode' = planMode
            /\ toolSet' = IF planMode THEN ReadOnly ELSE AllTools ]_vars

\* plan mode was on, the user accepted the plan, and the next request of the
\* turn offered the full tool set
C14_Witness ==
    /\ last.name = "ExitPlanMode" /\ last.planBefore /\ last.reply = "1\n"
    /\ ~planMode
    /\ nbatches = 2 /\ todo > 0 /\ toolSet = AllTools

\* the answers RequestPermissionWithDiff takes for "accept all" and for "yes"
AcceptAllAnswers == {"a", "all"}

YesAnswers == {"y", "yes"}

\* C15: a permission request made while permissionsMode is accept_all is
\* allowed without asking the user and without requesting an escalation, and
\* leaves permissionsMode at accept_all.
C15_AcceptAllNeverAsks ==
    (last.name # "Init" /\ last.modeBefore = "accept_all" /\ last.perm # <<>>) =>
        /\ last.perm[1].allowed
        /\ ~last.perm[1].asked
        /\ ~last.perm[1].setAcceptAll
        /\ permissionsMode = "accept_all"

\* a removal that went through the gate in accept_all mode
C15_Witness ==
    /\ last.name = "Rm" /\ last.modeBefore = "accept_all" /\ last.perm # <<>>
    /\ last.fsBefore["p"] = "old" /\ fs["p"] = "absent"

\* C16: permissionsMode is prompt when a new session starts, and every change
\* of it is a change from prompt to accept_all made by a tool call whose gate
\* got an "accept all" answer from the user.
C16_ModeOnlyEscalates ==
    /\ (last.name = "Init" /\ last.id = "new") => permissionsMode = "prompt"
    /\ [][ permissionsMode' # permissionsMode =>
            /\ permissionsMode = "prompt"
            /\ permissionsMode' = "accept_all"
            /\ todo' = todo - 1
            /\ last'.perm # <<>>
            /\ last'.perm[1].asked
            /\ TrimLower(last'.reply) \in AcceptAllAnswers ]_vars

\* a tool call has just escalated a new session's mode
C16_Witness ==
    /\ last.name = "WriteFile" /\ last.modeBefore = "prompt"
    /\ permissionsMode = "accept_all"

\* C17: under prompt mode the gate allows on y/yes without escalation, allows
\* and requests escalation on a/all, and denies without escalation on every
\* other input, the empty one included; after a yes or a refusal
\* permissionsMode is still prompt.
C17_PromptAnswers ==
    (last.name # "Init" /\ last.modeBefore = "prompt" /\ last.perm # <<>>) =>
        LET r == TrimLower(last.reply)
            perm == last.perm[1]
        IN  /\ perm.asked
            /\ r \in YesAnswers =>
                perm.allowed /\ ~perm.setAcceptAll /\ permissionsMode = "prompt"
            /\ r \in AcceptAllAnswers => perm.allowed /\ perm.setAcceptAll
            /\ r \notin YesAnswers \cup AcceptAllAnswers =>
                ~perm.allowed /\ ~perm.setAcceptAll /\ permissionsMode = "prompt"

\* the gate refused on end of input
C17_Witness ==
    /\ last.name = "Rm" /\ last.modeBefore = "prompt" /\ last.perm # <<>>
    /\ last.reply = "" /\ ~last.perm[1].allowed

\* the filesystem tools that change what a path holds
MutatingFsTools == {"WriteFile", "ReplaceText", "Rm", "Mkdir"}

\* C18: a call of WriteFile, ReplaceText, Rm or Mkdir that changed the
\* filesystem had asked the gate, and the gate had allowed that call.
C18_ChangeOnlyAfterAllowed ==
    (last.name \in MutatingFsTools /\ fs # last.fsBefore) =>
        (last.perm # <<>> /\ last.perm[1].allowed)

\* C19: a tool call the gate denied leaves the filesystem and permissionsMode
\* as they were, its result, recorded under the identifier of the call, holds
\* the text "permission denied", and the blocks after it are still run.
C19_DenialLeavesTarget ==
    /\ [][ (last'.perm # <<>> /\ ~last'.perm[1].allowed /\ todo' = todo - 1) =>
            /\ fs' = fs
            /\ permissionsMode' = permissionsMode
            /\ Len(toolResults') = Len(toolResults) + 1
            /\ SubSeq(toolResults', 1, Len(toolResults)) = toolResults
            /\ toolResults'[Len(toolResults')].ToolUseID = BlockID(Len(toolResults'))
            /\ toolResults'[Len(toolResults')].ToolUseID = last'.id
            /\ Contains(toolResults'[Len(toolResults')].Content, "permission denied: ")
            /\ toolResults'[Len(toolResults')].Content = last'.output ]_vars
    /\ [](todo > 0 => ENABLED ExecuteBlock)

\* the first call of a message was denied and the second one ran and wrote
C19_Witness ==
    /\ Len(toolResults) = 2
    /\ toolResults[1].ToolUseID = "t1"
    /\ Contains(toolResults[1].Content, "permission denied: ")
    /\ last.id = "t2" /\ last.name = "WriteFile" /\ fs # last.fsBefore
    /\ permissionsMode = "prompt"

\* the next step of the subagent executes a Done call with a summary (the
\* only other step there is the deadline passing, which changes sub.expired)
DoneIsNext ==
    /\ sub.pc = "tools" /\ sub.blocks # <<>>
    /\ Head(sub.blocks).Type = "tool_use"
    /\ Head(sub.blocks).Name = "Done"
    /\ Head(sub.blocks).Input.valid

\* the summary of the Done call that is executed next
NextSummary == Head(sub.blocks).Input.summary

\* C20 as stated: an executed Done call with summary X makes RunSubagent
\* return X with no error at once, and nothing is executed or requested
\* after it.
C20_DoneReturnsSummary ==
    /\ [][ (DoneIsNext /\ sub'.expired = sub.expired) =>
            /\ sub'.pc = "returned" /\ sub'.err = "nil"
            /\ sub'.ret = NextSummary ]_vars
    /\ [][ sub.pc = "returned" => sub' = sub ]_vars

\* C20, amended: an executed Done call with summary X makes RunSubagent
\* return, with no error and at once, X cut to its first MaxSummaryLen
\* characters; the blocks after it are not executed, and no request follows.
C20_DoneReturnsCutSummary ==
    /\ [][ (DoneIsNext /\ sub'.expired = sub.expired) =>
            /\ sub'.pc = "returned" /\ sub'.err = "nil"
            /\ sub'.ret = IF Len(NextSummary) > MaxSummaryLen
                          THEN SubSeq(NextSummary, 1, MaxSummaryLen)
                          ELSE NextSummary
            /\ sub'.calls = sub.calls
            /\ sub'.executed = Append(sub.executed, Head(sub.blocks))
            /\ sub'.blocks = Tail(sub.blocks) ]_vars
    /\ [][ sub.pc = "returned" => sub' = sub ]_vars

\* RunSubagent returned the cut summary of a Done call in its first turn while
\* a tool_use block of the same message was still to run
C20_Witness ==
    /\ sub.pc = "returned" /\ sub.err = "nil"
    /\ sub.ret = Repeat("x", MaxSummaryLen)
    /\ sub.executed # <<>>
    /\ sub.executed[Len(sub.executed)].Name = "Done"
    /\ sub.blocks # <<>> /\ Head(sub.blocks).Type = "tool_use"
    /\ sub.calls = 1

\* C21: RunSubagent never makes more than maxTurns model calls; a run that
\* reaches the head of the loop has made one call per turn, and one that has
\* used up its maxTurns turns leaves the loop with the turn-exhaustion error,
\* which is not the timeout error, after exactly maxTurns calls.
C21_ExactlyMaxTurnsCalls ==
    /\ [](sub.calls <= maxTurns)
    /\ [](sub.pc = "call" => sub.calls = sub.turn)
    /\ [](sub.err = ExhaustedError => (sub.calls = maxTurns /\ sub.err # TimeoutError))
    /\ [][ (sub.pc = "call" /\ sub.turn = maxTurns /\ sub'.pc # "call") =>
            (sub'.pc = "returned" /\ sub'.err = ExhaustedError
                /\ sub'.calls = maxTurns) ]_vars

\* the turns were used up before the deadline passed
C21_Witness ==
    /\ sub.pc = "returned" /\ sub.err = ExhaustedError
    /\ sub.calls = maxTurns /\ ~sub.expired

\* C22: once the deadline has passed no model call is issued, and the head
\* of the loop, reached with turns left, returns the timeout error and not
\* the turn-exhaustion error.
C22_DeadlineBeforeEveryCall ==
    /\ [][ sub.expired => sub'.calls = sub.calls ]_vars
    /\ [][ (sub.pc = "call" /\ sub.expired /\ sub.turn < maxTurns /\ sub' # sub) =>
            /\ sub'.pc = "returned"
            /\ sub'.err = TimeoutError
            /\ sub'.err # ExhaustedError ]_vars

\* the deadline passed during the second turn, and the run ended with the
\* timeout error with turns left
C22_Witness ==
    /\ sub.pc = "returned" /\ sub.err = TimeoutError
    /\ sub.turn = 2 /\ sub.calls = 2

\* C23: a model call that is in flight when the deadline passes is cancelled:
\* the next thing RunSubagent does is return the timeout error, it does not
\* go on with what the call delivers.
C23_DeadlineCancelsCall ==
    [][ (sub.pc = "inflight" /\ sub.expired /\ sub' # sub) =>
            (sub'.pc = "returned" /\ sub'.err = TimeoutError) ]_vars

\* C24: a response whose stop reason is not tool_use makes RunSubagent return
\* at once, with no error, the text of the first text block of the response;
\* none of its tool_use blocks is executed and no request follows.
C24_NonToolStopReturnsText ==
    /\ [][ (sub.pc = "inflight" /\ sub'.messages # sub.messages
                /\ sub'.stop # "tool_use") =>
            LET content == sub'.messages[Len(sub'.messages)].Content
                texts == {i \in 1..Len(content) : content[i].Type = "text"}
            IN  /\ sub'.pc = "returned" /\ sub'.err = "nil"
                /\ sub'.executed = sub.executed
                /\ sub'.calls = sub.calls
                /\ texts # {} =>
                    \E i \in texts :
                        /\ \A j \in texts : i <= j
                        /\ sub'.ret = content[i].Input.summary ]_vars
    /\ [][ (sub.pc = "returned" /\ sub.stop # "tool_use") =>
            (sub'.calls = sub.calls /\ sub'.executed = sub.executed) ]_vars

\* a response that ended the turn held a tool call and then a text: the text
\* was returned and the tool was not run
C24_Witness ==
    /\ sub.pc = "returned" /\ sub.err = "nil" /\ sub.stop = "end_turn"
    /\ Len(sub.messages[Len(sub.messages)].Content) = 2
    /\ sub.messages[Len(sub.messages)].Content[1].Type = "tool_use"
    /\ sub.messages[Len(sub.messages)].Content[2].Type = "text"
    /\ sub.ret = <<"h", "i">>
    /\ sub.executed = <<>>

\* C25: a summary RunSubagent returns because a tool result began with the
\* done signal is the text after the prefix cut to at most MaxSummaryLen
\* characters, whichever tool produced the result.
C25_SentinelSummaryCut ==
    (sub.pc = "returned" /\ sub.err = "nil" /\ sub.stop = "tool_use") =>
        LET block == sub.executed[Len(sub.executed)]
            rest == TrimPrefix(SubExecute(block), DoneSignalPrefix)
        IN  /\ Len(sub.ret) <= MaxSummaryLen
            /\ sub.ret = SubSeq(rest, 1, IF Len(rest) > MaxSummaryLen
                                         THEN MaxSummaryLen ELSE Len(rest))

\* C26: the tools offered with a request of the subagent are exactly
\* ReadFile, Ls, Grep, WriteFile, ReplaceText and Done; no shell, removal,
\* directory-creation or source-control tool is among them, and Done is not
\* in the full tool set of the top level.
C26_SubagentToolSet ==
    /\ sub.calls > 0 =>
        /\ sub.tools = {"ReadFile", "Ls", "Grep", "WriteFile", "ReplaceText", "Done"}
        /\ sub.tools \cap {"Bash", "Rm", "Mkdir", "Git"} = {}
    /\ "Done" \notin AllTools

\* a request of the subagent is in flight, offering Done among its tools
C26_Witness ==
    /\ sub.pc = "inflight" /\ sub.calls = 1
    /\ "Done" \in sub.tools /\ "WriteFile" \in sub.tools

\* C27: every tool executed for a subagent is one of the tools offered to
\* it; a tool_use block naming another registered tool is not executed.
C27_OnlyOfferedToolsRun ==
    \A i \in 1..Len(sub.executed) : sub.executed[i].Name \in SubagentTools

\* C28: whatever way the subagent of a Task call fails, the call ends with
\* exactly one result recorded under its identifier, whose text is the error
\* tagged as an error, and the parent's turn goes on with no error.
C28_SubagentFailureIsResult ==
    /\ turnErr = NoErr /\ turn = "infer"
    /\ todo = 1 => toolResults = <<>>
    /\ todo = 0 =>
        /\ Len(toolResults) = 1
        /\ toolResults[1].Type = "tool_result"
        /\ toolResults[1].ToolUseID = "t1"
        /\ (sub.pc = "returned" /\ sub.err # "nil") =>
                toolResults[1].Content = <<"error", sub.err>>

\* the subagent used up its turns and the parent holds the error as the
\* result of the Task call
C28_Witness ==
    /\ todo = 0 /\ sub.pc = "returned" /\ sub.err = ExhaustedError
    /\ toolResults = <<[Type |-> "tool_result", ToolUseID |-> "t1",
                        Content |-> <<"error", ExhaustedError>>]>>

\* the reminder texts
TodoReminderText == "<system-reminder>todo</system-reminder>"

PlanReminderText == "<system-reminder>plan</system-reminder>"

\* what follows the tool's output in the last result of a batch
ReminderSuffix(todoDue, planOn) ==
    CASE todoDue /\ planOn -> "\n" \o TodoReminderText \o "\n" \o PlanReminderText
      [] todoDue /\ ~planOn -> "\n" \o TodoReminderText
      [] ~todoDue /\ planOn -> "\n" \o PlanReminderText
      [] OTHER -> ""

\* C29: in the results entry of a batch every result but the last holds just
\* the output of its tool, and the last holds its tool's output followed by
\* the plan-mode reminder exactly when plan mode is on after the batch and
\* by the todo reminder exactly when 3 or more turns have passed since the
\* last TodoWrite and a todo is pending.
C29_RemindersOnLastResult ==
    [][ (turn = "infer" /\ Len(messages') = Len(messages) + 2) =>
        LET uses == ToolUses(messages'[Len(messages) + 1].Blocks)
            res == messages'[Len(messages) + 2].Results
            n == Len(res)
            suffix == ReminderSuffix(turnsSinceTodoWrite' >= 3 /\ pendingTodos',
                                     planMode')
        IN  /\ n = Len(uses) /\ n > 0
            /\ \A i \in 1..(n - 1) : res[i].Content \in ToolOutputs(uses[i].Name)
            /\ \E out \in ToolOutputs(uses[n].Name) : res[n].Content = out \o suffix
      ]_vars

\* a batch of two calls whose last result carries both reminders and whose
\* first result carries none
C29_Witness ==
    /\ messages # <<>>
    /\ messages[Len(messages)].Kind = "results"
    /\ Len(messages[Len(messages)].Results) = 2
    /\ messages[Len(messages)].Results[1].Content = DenyOutput
    /\ messages[Len(messages)].Results[2].Content =
            DenyOutput \o "\n" \o TodoReminderText \o "\n" \o PlanReminderText

\* C30: HandleInput("/plan"), in whatever state the agent is, flips the
\* plan-mode flag, returns shouldInfer = false and leaves the conversation
\* as it was; handled a second time it gives back the flag it started from.
C30_PlanToggle ==
    LET once == HandleInputReturn(planMode, messages, "/plan")
        twice == HandleInputReturn(once.planMode, once.messages, "/plan")
    IN  /\ once.planMode = ~planMode
        /\ ~once.shouldInfer
        /\ once.messages = messages
        /\ twice.planMode = planMode
        /\ ~twice.shouldInfer
        /\ twice.messages = messages

\* "/plan" was the first line of the session: plan mode is on, nothing was
\* appended and no turn was started
C30_Witness ==
    /\ ninputs = 1 /\ turn = "idle" /\ planMode /\ messages = <<>>
    /\ nresp = 0

\* lines of every class HandleInput distinguishes, the bare prefixes and the
\* empty line among them
ClassifiedLines == InputLines \cup {"!!", "!", ""}

\* C31: HandleInput tests "!!" before "!": "!!cmd" appends exactly one user
\* entry and returns no-inference, "!cmd" appends nothing and returns
\* no-inference, any other line but "/plan" appends exactly one user entry
\* whose content is the line and returns should-infer; in every case, and at
\* every line the main loop handles, the earlier entries stay as they were.
C31_InputClasses ==
    /\ [](\A input \in ClassifiedLines \ {"/plan"} :
            LET ret == HandleInputReturn(planMode, messages, input)
                chars == InputChars(input)
                n == Len(messages)
                bangs == IF chars # <<>> /\ chars[1] = "!"
                         THEN IF Len(chars) >= 2 /\ chars[2] = "!" THEN 2 ELSE 1
                         ELSE 0
            IN  /\ SubSeq(ret.messages, 1, n) = messages
                /\ bangs = 2 =>
                     /\ Len(ret.messages) = n + 1
                     /\ ret.messages[n + 1].Role = "user"
                     /\ ret.messages[n + 1].Kind = "text"
                     /\ ~ret.shouldInfer
                /\ bangs = 1 => ret.messages = messages /\ ~ret.shouldInfer
                /\ bangs = 0 =>
                     /\ ret.messages = Append(messages, TextEntry("user", input))
                     /\ ret.shouldInfer)
    /\ [][ ninputs' # ninputs =>
             /\ Len(messages') \in {Len(messages), Len(messages) + 1}
             /\ SubSeq(messages', 1, Len(messages)) = messages ]_vars

\* "!!ls" was the first line of the session: its command and output are the
\* only entry of the conversation and no turn was started
C31_Witness ==
    /\ ninputs = 1 /\ turn = "idle" /\ nresp = 0
    /\ messages = <<TextEntry("user", "$ ls\nout")>>

\* the table of TestValidateGitCommand
TestValidateGitCommand ==
    { [args |-> a, wantErr |-> FALSE] :
        a \in { <<"status">>, <<"log">>, <<"log", "--oneline">>, <<"show", "HEAD">>,
                <<"diff">>, <<"branch">>, <<"branch", "-v">>, <<"tag">>, <<"remote">>,
                <<"fetch", "origin">>, <<"ls-files">>, <<"config", "--list">>,
                <<"rev-parse", "HEAD">>, <<"blame", "main.go">>, <<"grep", "TODO">>,
                <<"checkout", "main">>, <<"checkout", "--", "file">> } }
    \cup
    { [args |-> a, wantErr |-> TRUE] :
        a \in { <<"commit", "-m", "test">>, <<"checkout", "-b", "test-branch">>,
                <<"checkout", "-B", "test-branch">>, <<"branch", "-d", "test">>,
                <<"branch", "-D", "test">>, <<"branch", "--delete", "test">>,
                <<"tag", "-d", "v1.0">>, <<"remote", "add", "origin", "url">>,
                <<"remote", "remove", "origin">>, <<"push", "origin", "main">>,
                <<"push", "--tags">>, <<"merge", "feature">>,
                <<"reset", "--hard", "HEAD">>, <<"reset", "--soft", "HEAD~1">>,
                <<"rebase", "main">>, <<"cherry-pick", "abc123">>,
                <<"revert", "abc123">>, <<"stash">>,
                <<"stash", "push", "-m", "message">>, <<"clean", "-fd">>,
                <<"restore", "file.txt">>, <<"switch", "main">>,
                <<"switch", "-c", "test">>, <<>>, <<"unknown-cmd">> } }

\* the argument lists the classes of the validation are checked on
GitArgLists == GitCalls \cup { t.args : t \in TestValidateGitCommand }

\* validateGitCommand agrees with the table of its test, and on every
\* argument list it rejects the four classes and accepts the rest
GitClassesAgree ==
    /\ \A t \in TestValidateGitCommand : validateGitCommand(t.args) = ~t.wantErr
    /\ \A args \in GitArgLists :
        /\ args = <<>> => ~validateGitCommand(args)
        /\ args # <<>> =>
            /\ args[1] \in blockedSubcommands => ~validateGitCommand(args)
            /\ args[1] \notin readOnlyGitCommands => ~validateGitCommand(args)
            /\ (\E i \in 2..Len(args) : args[i] \in blockedFlags(args[1])) =>
                    ~validateGitCommand(args)
            /\ ( /\ args[1] \in readOnlyGitCommands
                 /\ args[1] \notin blockedSubcommands
                 /\ \A i \in 2..Len(args) : args[i] \notin blockedFlags(args[1]) )
                    => validateGitCommand(args)

\* C32: validateGitCommand rejects the empty argument list, every blocked
\* subcommand, every subcommand outside the read-only allowlist and every
\* allowlisted subcommand with one of its blocked flags among its arguments,
\* and accepts every other allowlisted invocation; the git tool runs git only
\* for an invocation that is accepted, and answers the others with an error
\* that leaves the working tree alone.
C32_GitValidation ==
    /\ [] GitClassesAgree
    /\ [][ (todo' = todo - 1 /\ last'.name = "Git" /\ last'.input.valid) =>
            LET args == last'.input.args
                rejected == \/ args = <<>>
                            \/ args[1] \in blockedSubcommands
                            \/ args[1] \notin readOnlyGitCommands
                            \/ \E i \in 2..Len(args) : args[i] \in blockedFlags(args[1])
            IN  IF rejected
                THEN /\ last'.output = Error(<<"not allowed in read-only mode">>)
                     /\ fs' = fs
                ELSE /\ last'.output = <<"git">> \o args
                     /\ fs' = GitEffect(fs, args) ]_vars

\* the git tool was called with "branch -d x" and answered with the error
\* instead of running git
C32_Witness ==
    /\ last.name = "Git" /\ last.input.args = <<"branch", "-d", "x">>
    /\ last.output = Error(<<"not allowed in read-only mode">>)
    /\ fs = last.fsBefore

\* the call of replaceText is over, by a result or by a panic, and the file
\* was there
ReplaceOver == rep.pc \in {"done", "panic"} /\ rep.before # <<>>

\* the lines of the file the call was made on
LinesBefore == Split(rep.before[1])

\* the first and the last line (1-indexed) of the scope the input selects
ScopeFirst == IF rep.in.start_line # <<>> THEN rep.in.start_line[1] ELSE 1

ScopeLast == IF rep.in.end_line # <<>> THEN rep.in.end_line[1] ELSE Len(LinesBefore)

ScopeValid ==
    /\ 1 <= ScopeFirst /\ ScopeFirst <= ScopeLast /\ ScopeLast <= Len(LinesBefore)

\* the text of the scope
ScopeText == Join(SubSeq(LinesBefore, ScopeFirst, ScopeLast))

\* the positions (0-based) of the scope at which old_text occurs
Occurrences ==
    { i \in 0..(Len(ScopeText) - Len(rep.in.old_text)) :
        SubSeq(ScopeText, i + 1, i + Len(rep.in.old_text)) = rep.in.old_text }

\* the file with the occurrence at position i of the scope replaced
ReplacedAt(i) ==
    Join(SubSeq(LinesBefore, 1, ScopeFirst - 1)
         \o Split(SubSeq(ScopeText, 1, i) \o rep.in.new_text
                  \o SubSeq(ScopeText, i + Len(rep.in.old_text) + 1, Len(ScopeText)))
         \o SubSeq(LinesBefore, ScopeLast + 1, Len(LinesBefore)))

\* C33: ReplaceText (old_text not empty) changes the file only when old_text
\* occurs exactly once in the selected lines: no occurrence gives a 'not
\* found' error and several give a 'found N times' error, the file unchanged
\* in both cases; on success that one occurrence is replaced and the lines
\* outside the scope are as before.
C33_ReplaceOnlyUniqueMatch ==
    (ReplaceOver /\ rep.in.old_text # <<>>) =>
        /\ ~rep.panic
        /\ rep.file # rep.before => (ScopeValid /\ Cardinality(Occurrences) = 1)
        /\ (ScopeValid /\ Occurrences = {}) =>
              /\ rep.file = rep.before
              /\ rep.output[1] = "error"
              /\ rep.output[2] \in {"old_text not found", "old_text not found in lines"}
        /\ (ScopeValid /\ Cardinality(Occurrences) > 1) =>
              /\ rep.file = rep.before
              /\ rep.output[1] = "error" /\ rep.output[2] = "old_text found"
        /\ rep.output = <<"replaced">> =>
              /\ ScopeValid
              /\ \E i \in Occurrences : Occurrences = {i} /\ rep.file = <<ReplacedAt(i)>>

\* C33 for the calls in which no two occurrences of old_text in the scope
\* overlap
C33_ReplaceOnlyUniqueMatchApart ==
    ( /\ ReplaceOver /\ rep.in.old_text # <<>>
      /\ ScopeValid =>
            \A i, j \in Occurrences :
                \/ i = j
                \/ i + Len(rep.in.old_text) <= j
                \/ j + Len(rep.in.old_text) <= i )
        => C33_ReplaceOnlyUniqueMatch

\* C34: ReplaceText called on a file with an empty old_text returns an error
\* result saying that old_text cannot be empty, and the file is as before.
C34_EmptyOldTextRejected ==
    (ReplaceOver /\ rep.in.old_text = <<>>
        /\ rep.in.start_line = <<>> /\ rep.in.end_line = <<>>) =>
        /\ ~rep.panic
        /\ rep.output = Error(<<"old_text cannot be empty">>)
        /\ rep.file = rep.before

\* C35: while plan mode is on, a tool_use block that names a tool outside the
\* read-only set does not have its side effect performed: the files are as
\* they were after executeTools has handled the block.
C35_PlanModeBlocksMutation ==
    [][ (todo' = todo - 1 /\ planMode /\ last'.name \notin ReadOnly) => fs' = fs ]_vars

\* the content_block_start frames among the lines the loop has handled
StartFrames == SelectSeq(Frames(wire), LAMBDA l : l.ev.Type = "content_block_start")

\* C36: the blocks of the message's Content, and of the message FinalMessage
\* returns, are exactly the blocks whose content_block_stop was handled while
\* they were open, once each and in that order; a block that was opened and
\* never stopped, or replaced by a later content_block_start, is not among
\* them; and a content_block_delta or content_block_stop handled while no
\* block is open changes nothing and emits nothing.
C36_ContentIsStoppedBlocks ==
    /\ [](Len(message) = 1 =>
            /\ Len(Content) = Len(ReceivedBlocks)
            /\ \A i \in DOMAIN Content :
                /\ Content[i].Type = ReceivedBlocks[i].start.Type
                /\ Content[i].ID = ReceivedBlocks[i].start.ID
                /\ Content[i].Name = ReceivedBlocks[i].start.Name
            /\ Len(EventsOf({"contentBlock"})) = Len(ReceivedBlocks))
    /\ []((spc = "returned" /\ Len(retMsg) = 1) => retMsg = message)
    /\ [][ ( /\ spc = "dispatch" /\ spc' = "scan" /\ ~IsSkipped(line)
             /\ line.ev.Type \in {"content_block_delta", "content_block_stop"}
             /\ Len(currentBlock) = 0 ) =>
            UNCHANGED <<message, currentBlock, toolInputJSON, finalText, events>>
         ]_vars

\* FinalMessage returned a message with one block although three were
\* opened: the first was replaced by the second, which was stopped, and the
\* third was open when the body ended
C36_Witness ==
    /\ spc = "returned" /\ Len(retMsg) = 1
    /\ Len(StartFrames) = 3
    /\ Len(retMsg[1].Content) = 1
    /\ retMsg[1].Content[1].Type = "tool_use"
    /\ Len(currentBlock) = 1

\* C37: once the 'message' event has been emitted, the message the handlers
\* were handed (ms.message, a pointer) is not changed by a later frame, and
\* no second 'message' event is emitted.
C37_MessageFrozenAfterEvent ==
    [][ EventsOf({"message"}) # <<>> =>
            /\ message' = message
            /\ Len(SelectSeq(events', LAMBDA e : e.kind = "message")) = 1 ]_vars

\* C38: when a stream consumed through Events() is aborted while its reader
\* runs, the reader eventually stops, closes the channel and resolves the
\* completion signal, whatever the consumer does and however full the
\* channel is.
C38_AbortedReaderStops ==
    (mode = "events" /\ spc \in {"scan", "dispatch"} /\ ctxDone)
        ~> (spc = "returned" /\ chClosed /\ doneOnce)

\* C39: while a skill restriction is in force, Execute of a name outside the
\* allowed set returns the 'not allowed in current skill' text and invokes
\* neither a local nor a delegated tool; InvokeSkill is always allowed; and
\* the restriction is the same from call to call and from turn to turn until
\* SetAllowedTools (from invokeSkill) or ClearAllowedTools assigns it.
C39_SkillRestriction ==
    /\ [](skill.allowed # <<>> => "InvokeSkill" \in skill.allowed[1])
    /\ [][ todo' = todo - 1 =>
            /\ (skill.allowed # <<>> /\ skill'.name \notin skill.allowed[1]) =>
                    /\ skill'.output = NotAllowed(skill'.name)
                    /\ skill'.ran = "none"
            /\ (skill.allowed # <<>> /\ skill'.name \in skill.allowed[1]) =>
                    skill'.output # NotAllowed(skill'.name)
            /\ skill'.name = "InvokeSkill" => skill'.ran = "local"
            /\ skill'.name # "InvokeSkill" => skill'.allowed = skill.allowed
         ]_vars
    /\ [][ todo' # todo - 1 =>
            \/ skill'.allowed = skill.allowed
            \/ skill.allowed # <<>> /\ skill'.allowed = <<>> ]_vars

\* a restriction set in the first turn refused WriteFile in the second
C39_Witness ==
    /\ skill.allowed = <<{"ReadFile", "InvokeSkill"}>>
    /\ skill.since = 1 /\ nbatches = 2
    /\ skill.name = "WriteFile" /\ skill.output = NotAllowed("WriteFile")
    /\ skill.ran = "none" /\ skill.before = skill.allowed

\* C40: whenever Agent.Save has written the session, the permissions mode in
\* the session file is the mode the tools package had at that moment.
C40_SavedModeIsCurrent ==
    sess.saved # <<>> => sess.saved[1] = sess.toolsMode

====
